---- MODULE Spec2Model ----
(***************************************************************************)
(* GamerLingo: translation request orchestrator, cache stores, retry       *)
(* policy and audio codec, modelled from the TypeScript sources.           *)
(*                                                                         *)
(* Strings are sequences of one-character strings, so that trimming,       *)
(* lower-casing and concatenation are computed rather than assumed.        *)
(* The JavaScript event loop is modelled as run-to-completion: an action   *)
(* is one task (a user event, a network response, a timer) or one          *)
(* microtask (a promise reaction); tasks wait until no microtask is ready. *)
(***************************************************************************)
EXTENDS Integers, Sequences, FiniteSets, TLC

VARIABLES
  rt,                       \* one run of retryOperation
  dec,                      \* one run of decodeAudioData
  ck,                       \* one run of generateCacheKey on two inputs
  rd,                       \* ResultDisplay: its record, the window selection, selectionState
  ia,                       \* InputArea: its state, refs, pending timers and onTranslate calls
  now,                      \* the clock read by Date.now(), in milliseconds
  translationCache,         \* cacheService: Map key -> {data, timestamp}, in insertion order
  reverseTranslationCache,  \* cacheService: Map key -> string, in insertion order
  ttsCache,                 \* cacheService: Map key -> base64 audio, in insertion order
  touchOrder,               \* history variable: keys of translationCache, least recently used first
  inflightTTS,              \* geminiService: Map trimmed text -> pending synthesis promise
  promises,                 \* the promises generateSpeech has created, by creation order
  speakers,                 \* history variable: the direct generateSpeech calls, and what the last returned
  activeRequestId,          \* TranslationBox: activeRequestIdRef.current
  loadingState,             \* TranslationBox: loadingState
  currentResult,            \* TranslationBox: currentResult, the visible record
  history,                  \* App: history, newest first
  calls,                    \* the activations of handleTranslate, in call order
  sourceLang,               \* InputArea: sourceLang
  targetLang,               \* InputArea: targetLang
  userEvents,               \* swaps, selector changes and clears so far
  budget                    \* what one run may contain: calls (overlapping or not), clock
                            \* ticks, failed attempts, user events

cacheVars == <<now, translationCache, reverseTranslationCache, ttsCache, touchOrder>>
speechVars == <<inflightTTS, promises, speakers>>
orchVars == <<activeRequestId, loadingState, currentResult, history, calls, sourceLang,
              targetLang, userEvents, budget>>
vars == <<rt, dec, ck, rd, ia, now, translationCache, reverseTranslationCache, ttsCache, touchOrder,
          inflightTTS, promises, speakers, activeRequestId, loadingState, currentResult,
          history, calls, sourceLang, targetLang, userEvents, budget>>

Null == [null |-> TRUE]    \* JavaScript null / undefined, where an object may stand

Min(a, b) == IF a <= b THEN a ELSE b

(***************************************************************************)
(* Bounds of the model                                                     *)
(***************************************************************************)
MaxRetries == 2     \* retryOperation is started with 0..MaxRetries retries
MaxB64Len == 4      \* longest base64 input handed to decodeAudioData
MaxKeyTextLen == 3  \* longest text handed to generateCacheKey
MaxClock == 2       \* Date.now() ranges over 0..MaxClock
MaxPromises == 3    \* synthesis promises created in one run
MaxSpeechCalls == 3 \* direct generateSpeech calls in one run
MaxCalls == 2       \* handleTranslate calls in one run
MaxRaceClock == 1   \* last value of the clock while calls overlap
MaxFragments == 2   \* fragments one translation stream yields
MaxFailures == 4    \* failed backend attempts in one run of the orchestrator
MaxUserEvents == 2  \* swaps, selector changes and clears in one run

\* Capacity of the history list, scaled down from the source's 50
HISTORY_LIMIT == 2

\* Capacities, scaled down from the sources' 50 / 100 / 50
MAX_CACHE_SIZE == 2
MAX_REVERSE_CACHE_SIZE == 2
MAX_TTS_CACHE_SIZE == 2

(***************************************************************************)
(* Errors.  An error is its name plus the set of quota markers that its    *)
(* lower-cased text contains (error.toString().toLowerCase().includes).    *)
(***************************************************************************)
Markers == {"429", "quota", "resource exhausted"}

Errors ==
  { [name |-> "network down", markers |-> {}],
    [name |-> "http 429", markers |-> {"429"}],
    [name |-> "quota used up", markers |-> {"quota"}],
    [name |-> "resource exhausted", markers |-> {"resource exhausted"}] }

\* new Error("API Quota Exceeded. Please try again in a minute.")
QuotaExceededError ==
  [name |-> "API Quota Exceeded. Please try again in a minute.", markers |-> {"quota"}]

(***************************************************************************)
(* retryOperation(operation, retries = 2, delay = 1000)                    *)
(***************************************************************************)
DEFAULT_RETRIES == 2
DEFAULT_DELAY == 1000
Delays == {DEFAULT_DELAY, 500}

\* IsQuotaError without the third marker
IsQuotaErrorTwoMarkers(e) ==
  \/ "429" \in e.markers
  \/ "quota" \in e.markers

\* the test of the catch block on the error text
IsQuotaError(e) ==
  \/ "429" \in e.markers
  \/ "quota" \in e.markers
  \/ "resource exhausted" \in e.markers

\* RetryCatch with the quota branch waiting like the plain branch
RetryCatchQuotaAsPlain(retries, delay, e) ==
  IF IsQuotaError(e)
  THEN IF retries <= 0
       THEN [do |-> "throw", error |-> QuotaExceededError]
       ELSE [do |-> "wait", ms |-> delay, retries |-> retries - 1, delay |-> delay * 2]
  ELSE IF retries <= 0
       THEN [do |-> "throw", error |-> e]
       ELSE [do |-> "wait", ms |-> delay, retries |-> retries - 1, delay |-> delay * 2]

\* RetryCatch with the plain backoff not doubled
RetryCatchNoDoubling(retries, delay, e) ==
  IF IsQuotaError(e)
  THEN IF retries <= 0
       THEN [do |-> "throw", error |-> QuotaExceededError]
       ELSE [do |-> "wait", ms |-> delay * 3, retries |-> retries - 1, delay |-> delay * 3]
  ELSE IF retries <= 0
       THEN [do |-> "throw", error |-> e]
       ELSE [do |-> "wait", ms |-> delay, retries |-> retries - 1, delay |-> delay]

\* The catch block: what follows a failed attempt with `retries` left and the
\* configured `delay`.  Either the error to throw, or the wait before the next
\* attempt and the arguments of the recursive call.
RetryCatch(retries, delay, e) ==
  IF IsQuotaError(e)
  THEN IF retries <= 0
       THEN [do |-> "throw", error |-> QuotaExceededError]
       ELSE [do |-> "wait", ms |-> delay * 3, retries |-> retries - 1, delay |-> delay * 3]
  ELSE IF retries <= 0
       THEN [do |-> "throw", error |-> e]
       ELSE [do |-> "wait", ms |-> delay, retries |-> retries - 1, delay |-> delay * 2]

Values == {"v1", "v2"}    \* what an operation may resolve to

RetryIdle ==
  [pc |-> "idle", retries |-> 0, delay |-> 0, retries0 |-> 0, delay0 |-> 0,
   calls |-> 0, waits |-> <<>>, outcomes |-> <<>>, result |-> Null]

\* retryOperation has been entered and the first attempt is running
RetryStart(r, d) ==
  [pc |-> "calling", retries |-> r, delay |-> d, retries0 |-> r, delay0 |-> d,
   calls |-> 1, waits |-> <<>>, outcomes |-> <<>>, result |-> Null]

\* `return await operation()` with the operation resolving to v
OperationResolves(v) ==
  /\ rt.pc = "calling"
  /\ rt' = [rt EXCEPT !.pc = "returned", !.result = [value |-> v],
                      !.outcomes = Append(@, [ok |-> TRUE, value |-> v])]
  /\ UNCHANGED <<ia, dec, ck, rd, cacheVars, speechVars, orchVars>>

\* a catch block whose recursive call passes `retries` on unchanged
OperationRejectsKeepingRetries(e) ==
  /\ rt.pc = "calling"
  /\ LET c == RetryCatch(rt.retries, rt.delay, e)
         out == Append(rt.outcomes, [ok |-> FALSE, error |-> e])
     IN  IF c.do = "throw"
         THEN rt' = [rt EXCEPT !.pc = "thrown", !.result = [error |-> c.error], !.outcomes = out]
         ELSE rt' = [rt EXCEPT !.pc = "waiting", !.waits = Append(@, c.ms),
                               !.delay = c.delay, !.outcomes = out]
  /\ UNCHANGED <<ia, dec, ck, rd, cacheVars, speechVars, orchVars>>

\* the operation rejects with e: the catch block runs up to its await or throw
OperationRejects(e) ==
  /\ rt.pc = "calling"
  /\ LET c == RetryCatch(rt.retries, rt.delay, e)
         out == Append(rt.outcomes, [ok |-> FALSE, error |-> e])
     IN  IF c.do = "throw"
         THEN rt' = [rt EXCEPT !.pc = "thrown", !.result = [error |-> c.error], !.outcomes = out]
         ELSE rt' = [rt EXCEPT !.pc = "waiting", !.waits = Append(@, c.ms),
                               !.retries = c.retries, !.delay = c.delay,
                               !.outcomes = out]
  /\ UNCHANGED <<ia, dec, ck, rd, cacheVars, speechVars, orchVars>>

\* the backoff timer fires: the recursive call invokes the operation again
BackoffTimerFires ==
  /\ rt.pc = "waiting"
  /\ rt' = [rt EXCEPT !.pc = "calling", !.calls = @ + 1]
  /\ UNCHANGED <<ia, dec, ck, rd, cacheVars, speechVars, orchVars>>

(***************************************************************************)
(* decodeAudioData(base64Data, audioContext)                               *)
(***************************************************************************)
SAMPLE_RATE == 24000
SILENCE_LENGTH == 24000
PCM_SCALE == 32768

B64Digits == {"A", "Q", "/"}
B64Chars == B64Digits \cup {"=", " ", "!"}    \* padding, white space, a foreign character

B64Value(c) == CASE c = "A" -> 0 [] c = "Q" -> 16 [] c = "/" -> 63 [] OTHER -> 0

IsWhitespace(c) == c = " "

\* s.replace(/\s/g, '')
RECURSIVE StripWhitespace(_)
StripWhitespace(s) ==
  IF s = <<>> THEN <<>>
  ELSE IF IsWhitespace(Head(s)) THEN StripWhitespace(Tail(s))
       ELSE <<Head(s)>> \o StripWhitespace(Tail(s))

\* the bytes of a run of base64 digits; the bits of an incomplete byte are dropped
RECURSIVE B64Bytes(_)
B64Bytes(d) ==
  IF Len(d) < 2 THEN <<>>
  ELSE LET v1 == B64Value(d[1])
           v2 == B64Value(d[2])
           b1 == v1 * 4 + (v2 \div 16)
       IN  IF Len(d) = 2 THEN <<b1>>
           ELSE LET v3 == B64Value(d[3])
                    b2 == (v2 % 16) * 16 + (v3 \div 4)
                IN  IF Len(d) = 3 THEN <<b1, b2>>
                    ELSE LET b3 == (v3 % 4) * 64 + B64Value(d[4])
                         IN  <<b1, b2, b3>> \o B64Bytes(SubSeq(d, 5, Len(d)))

\* window.atob: the forgiving-base64 decode of the platform
Atob(s) ==
  LET t == StripWhitespace(s)
      n == Len(t)
      u == IF n > 0 /\ n % 4 = 0
           THEN IF t[n] = "=" /\ t[n - 1] = "=" THEN SubSeq(t, 1, n - 2)
                ELSE IF t[n] = "=" THEN SubSeq(t, 1, n - 1)
                ELSE t
           ELSE t
  IN  IF Len(u) % 4 = 1 \/ \E i \in 1..Len(u) : u[i] \notin B64Digits
      THEN [ok |-> FALSE, bytes |-> <<>>]
      ELSE [ok |-> TRUE, bytes |-> B64Bytes(u)]

\* new Int16Array(bytes.buffer)[i] on a little-endian platform (i from 1)
Int16At(bytes, i) ==
  LET u == bytes[2 * i - 1] + 256 * bytes[2 * i]
  IN  IF u >= 32768 THEN u - 65536 ELSE u

\* audioContext.createBuffer(1, length, sampleRate): zero-filled; `written` holds
\* the samples stored from index 0 on, as fractions num/den
CreateBuffer(channels, length, rate) ==
  [numberOfChannels |-> channels, length |-> length, sampleRate |-> rate, written |-> <<>>]

SilentBuffer == CreateBuffer(1, SILENCE_LENGTH, SAMPLE_RATE)

\* decodeAudioData without the alignment of line 65: the Int16Array constructor
\* throws a RangeError on an odd byte length, which the catch turns into silence
decodeAudioDataNoAlign(base64Data) ==
  IF base64Data = <<>> THEN SilentBuffer
  ELSE LET a == Atob(StripWhitespace(base64Data))
       IN  IF ~a.ok THEN SilentBuffer
           ELSE LET len == Len(a.bytes)
                    pcmLen == len \div 2
                IN  IF len = 0 \/ len % 2 = 1 \/ pcmLen = 0 THEN SilentBuffer
                    ELSE [CreateBuffer(1, pcmLen, SAMPLE_RATE) EXCEPT
                            !.written = [i \in 1..pcmLen |->
                                           [num |-> Int16At(a.bytes, i), den |-> PCM_SCALE]]]

\* The value the returned promise resolves to.  Every throw of the try block is
\* caught, so there is no rejecting outcome.
decodeAudioData(base64Data) ==
  IF base64Data = <<>> THEN SilentBuffer                  \* "Audio data is empty"
  ELSE LET a == Atob(StripWhitespace(base64Data))
       IN  IF ~a.ok THEN SilentBuffer                     \* atob throws
           ELSE LET len == Len(a.bytes)
                    alignedLen == IF len % 2 = 0 THEN len ELSE len - 1
                    bytes == SubSeq(a.bytes, 1, alignedLen)
                    pcmLen == alignedLen \div 2
                IN  IF len = 0 THEN SilentBuffer          \* "Audio data length is zero"
                    ELSE IF pcmLen = 0 THEN SilentBuffer  \* "PCM data empty"
                    ELSE [CreateBuffer(1, pcmLen, SAMPLE_RATE) EXCEPT
                            !.written = [i \in 1..pcmLen |->
                                           [num |-> Int16At(bytes, i), den |-> PCM_SCALE]]]

RECURSIVE SeqsUpTo(_, _)
SeqsUpTo(S, n) ==
  IF n = 0 THEN {<<>>}
  ELSE LET shorter == SeqsUpTo(S, n - 1)
       IN  shorter \cup {Append(s, c) : s \in {x \in shorter : Len(x) = n - 1}, c \in S}

DecodeIdle == [pc |-> "idle", input |-> <<>>, result |-> Null]

\* the call of decodeAudioData on the input drawn by Init
DecodeCall ==
  /\ dec.pc = "called"
  /\ dec' = [dec EXCEPT !.pc = "resolved", !.result = decodeAudioData(dec.input)]
  /\ UNCHANGED <<ia, rt, ck, rd, cacheVars, speechVars, orchVars>>

(***************************************************************************)
(* Strings                                                                 *)
(***************************************************************************)
\* String.prototype.toLowerCase
LowerChar(c) == CASE c = "A" -> "a" [] c = "B" -> "b" [] OTHER -> c
ToLowerCase(s) == [i \in 1..Len(s) |-> LowerChar(s[i])]

\* String.prototype.trim
RECURSIVE TrimStart(_)
TrimStart(s) ==
  IF s # <<>> /\ IsWhitespace(Head(s)) THEN TrimStart(Tail(s)) ELSE s

RECURSIVE TrimEnd(_)
TrimEnd(s) ==
  IF s # <<>> /\ IsWhitespace(s[Len(s)]) THEN TrimEnd(SubSeq(s, 1, Len(s) - 1)) ELSE s

Trim(s) == TrimEnd(TrimStart(s))

Colon == <<":">>

\* language codes of the registry, as strings
LANG_AUTO == <<"a", "u", "t", "o">>
LANG_EN == <<"e", "n">>
LANG_ZH == <<"z", "h">>
LanguageCodes == {LANG_AUTO, LANG_EN, LANG_ZH}

(***************************************************************************)
(* JavaScript Map, as the sequence of its entries in insertion order       *)
(***************************************************************************)
MapKeys(m) == [i \in 1..Len(m) |-> m[i].key]
MapKeySet(m) == {m[i].key : i \in 1..Len(m)}
MapHas(m, k) == k \in MapKeySet(m)
MapIndex(m, k) == CHOOSE i \in 1..Len(m) : m[i].key = k
MapGet(m, k) == m[MapIndex(m, k)]
MapDelete(m, k) ==
  IF MapHas(m, k)
  THEN LET i == MapIndex(m, k) IN SubSeq(m, 1, i - 1) \o SubSeq(m, i + 1, Len(m))
  ELSE m
\* Map.prototype.set: an existing key keeps its position, a new key goes last
MapSet(m, e) ==
  IF MapHas(m, e.key) THEN [m EXCEPT ![MapIndex(m, e.key)] = e] ELSE Append(m, e)

(***************************************************************************)
(* cacheService: text-translation store                                    *)
(***************************************************************************)
\* a key that keeps the letter case of the text
generateCacheKeyNoLower(text, src, tgt) ==
  src \o Colon \o tgt \o Colon \o Trim(text)

generateCacheKey(text, src, tgt) ==
  src \o Colon \o tgt \o Colon \o ToLowerCase(Trim(text))

\* generateCacheKey applied to two inputs
KeyChars == {"a", "A", " "}
CacheKeyIdle == [pc |-> "idle"]
CacheKeyInputs ==
  { [text |-> t, src |-> s, tgt |-> g] :
      t \in SeqsUpTo(KeyChars, MaxKeyTextLen), s \in LanguageCodes,
      g \in LanguageCodes \ {LANG_AUTO} }

CallGenerateCacheKey ==
  /\ ck.pc = "called"
  /\ ck' = [ck EXCEPT !.pc = "done",
                      !.ka = generateCacheKey(ck.a.text, ck.a.src, ck.a.tgt),
                      !.kb = generateCacheKey(ck.b.text, ck.b.src, ck.b.tgt)]
  /\ UNCHANGED <<ia, rt, dec, rd, cacheVars, speechVars, orchVars>>

\* what getCachedTranslation returns: the entry's data, or Null
getCachedTranslation(cache, key) ==
  IF MapHas(cache, key) THEN MapGet(cache, key).data ELSE Null

\* what getCachedTranslation does to the store: a hit refreshes the timestamp
TouchCachedTranslation(cache, key, t) ==
  IF MapHas(cache, key)
  THEN [cache EXCEPT ![MapIndex(cache, key)].timestamp = t]
  ELSE cache

\* the scan of setCachedTranslation: the first entry, in iteration order, that
\* has the smallest timestamp
OldestKey(cache) ==
  cache[CHOOSE i \in 1..Len(cache) :
          /\ \A j \in 1..Len(cache) : cache[i].timestamp <= cache[j].timestamp
          /\ \A j \in 1..(i - 1) : cache[j].timestamp > cache[i].timestamp].key

\* { ...a, ...b }
SpreadMerge(a, b) ==
  [f \in DOMAIN a \cup DOMAIN b |-> IF f \in DOMAIN b THEN b[f] ELSE a[f]]

\* a setCachedTranslation that never evicts
setCachedTranslationNoEvict(cache, key, data, t) ==
  LET newData == IF MapHas(cache, key)
                 THEN SpreadMerge(MapGet(cache, key).data, data)
                 ELSE data
  IN  MapSet(cache, [key |-> key, data |-> newData, timestamp |-> t])

\* the store after setCachedTranslation(key, data) at time t;
\* `if (oldestKey)`: an oldest key '' is not deleted
setCachedTranslation(cache, key, data, t) ==
  LET evicted == IF Len(cache) >= MAX_CACHE_SIZE /\ OldestKey(cache) # <<>>
                 THEN MapDelete(cache, OldestKey(cache))
                 ELSE cache
      newData == IF MapHas(evicted, key)
                 THEN SpreadMerge(MapGet(evicted, key).data, data)
                 ELSE data
  IN  MapSet(evicted, [key |-> key, data |-> newData, timestamp |-> t])

(***************************************************************************)
(* cacheService: reverse-translation store and speech-audio store          *)
(***************************************************************************)
\* `if (firstKey)`: the empty string is falsy
Truthy(str) == str # <<>>

\* the eviction shared by both stores: drop the first key when at capacity
EvictFirst(m, capacity) ==
  IF Len(m) >= capacity /\ Len(m) > 0 /\ Truthy(m[1].key)
  THEN MapDelete(m, m[1].key)
  ELSE m

ReverseKey(text, tgt) == tgt \o Colon \o Trim(text)

getCachedReverseTranslation(cache, text, tgt) ==
  LET key == ReverseKey(text, tgt)
  IN  IF MapHas(cache, key) /\ Truthy(MapGet(cache, key).value)
      THEN MapGet(cache, key).value
      ELSE <<>>    \* null

setCachedReverseTranslation(cache, text, tgt, result) ==
  MapSet(EvictFirst(cache, MAX_REVERSE_CACHE_SIZE),
         [key |-> ReverseKey(text, tgt), value |-> result])

\* the cached base64 payload, or Null
getCachedTTS(cache, text) ==
  IF MapHas(cache, Trim(text)) THEN MapGet(cache, Trim(text)).value ELSE Null

setCachedTTS(cache, text, base64) ==
  MapSet(EvictFirst(cache, MAX_TTS_CACHE_SIZE), [key |-> Trim(text), value |-> base64])

(***************************************************************************)
(* The cache stores driven through their exported functions                *)
(***************************************************************************)
\* keys as generateCacheKey builds them
TextCacheKeys ==
  {generateCacheKey(t, LANG_EN, LANG_ZH) : t \in {<<"a">>, <<"b">>, <<"x">>, <<"y">>}}

\* TranslationResultPartial values: text only, and text with audio
TextCacheData ==
  { [slang |-> <<"x">>, tags |-> <<>>, visual_description |-> ""],
    [slang |-> <<"x">>, tags |-> <<"Hype">>, visual_description |-> "d",
     audioData |-> [forText |-> <<"x">>]] }

\* the history variable: key k has just been used
Touched(order, k) == SelectSeq(order, LAMBDA x : x # k) \o <<k>>

ClockTick ==
  /\ now < budget.clock
  /\ now' = now + 1
  /\ UNCHANGED <<ia, rt, dec, ck, rd, translationCache, reverseTranslationCache, ttsCache, touchOrder,
                 speechVars, orchVars>>

CallGetCachedTranslation(key) ==
  /\ translationCache' = TouchCachedTranslation(translationCache, key, now)
  /\ touchOrder' = IF MapHas(translationCache, key) THEN Touched(touchOrder, key)
                   ELSE touchOrder
  /\ UNCHANGED <<ia, rt, dec, ck, rd, now, reverseTranslationCache, ttsCache, speechVars, orchVars>>

CallSetCachedTranslation(key, data) ==
  /\ translationCache' = setCachedTranslation(translationCache, key, data, now)
  /\ touchOrder' = Touched(SelectSeq(touchOrder, LAMBDA x : MapHas(translationCache', x)), key)
  /\ UNCHANGED <<ia, rt, dec, ck, rd, now, reverseTranslationCache, ttsCache, speechVars, orchVars>>

FifoTexts == {<<>>, <<"a">>, <<"a", " ">>, <<"b">>, <<"x">>}
FifoResults == {<<"r">>, <<"s">>}
AudioPayloads == {[forText |-> <<"a">>], [forText |-> <<"b">>]}

\* a get of either store changes nothing
CallGetCachedReverseTranslation(text, tgt) ==
  /\ Len(getCachedReverseTranslation(reverseTranslationCache, text, tgt)) >= 0
  /\ UNCHANGED vars

CallSetCachedReverseTranslation(text, tgt, result) ==
  /\ reverseTranslationCache' =
       setCachedReverseTranslation(reverseTranslationCache, text, tgt, result)
  /\ UNCHANGED <<ia, rt, dec, ck, rd, now, translationCache, ttsCache, touchOrder, speechVars,
                 orchVars>>

CallGetCachedTTS(text) ==
  /\ getCachedTTS(ttsCache, text) \in AudioPayloads \cup {Null}
  /\ UNCHANGED vars

CallSetCachedTTS(text, base64) ==
  /\ ttsCache' = setCachedTTS(ttsCache, text, base64)
  /\ UNCHANGED <<ia, rt, dec, ck, rd, now, translationCache, reverseTranslationCache, touchOrder,
                 speechVars, orchVars>>

(***************************************************************************)
(* geminiService: generateSpeech and the in-flight map                     *)
(***************************************************************************)
\* the base64 payload the backend synthesizes for a text
AudioFor(text) == [forText |-> text]
\* generateSpeech("") resolves to the empty string
EmptyAudio == [empty |-> TRUE]

PromisePending(pr) == pr.state \in {"calling", "waiting"}
PromiseSettled(pr) == pr.state \in {"resolved", "rejected"}

\* generateSpeech without the in-flight lookup of lines 312-314
generateSpeechNoDedup(text, cache, inflight, proms) ==
  IF text = <<>>
  THEN [ret |-> [kind |-> "value", value |-> EmptyAudio],
        inflight |-> inflight, promises |-> proms]
  ELSE LET trimmed == Trim(text)
           cached == getCachedTTS(cache, trimmed)
       IN  IF cached # Null
           THEN [ret |-> [kind |-> "value", value |-> cached],
                 inflight |-> inflight, promises |-> proms]
           ELSE [ret |-> [kind |-> "promise", id |-> Len(proms) + 1],
                 inflight |-> MapSet(inflight, [key |-> trimmed, value |-> Len(proms) + 1]),
                 promises |-> Append(proms,
                    [key |-> trimmed, state |-> "calling", retries |-> DEFAULT_RETRIES,
                     delay |-> DEFAULT_DELAY, outcome |-> Null, cleaned |-> FALSE])]

\* The synchronous part of generateSpeech(text): what the caller gets (a value the
\* returned promise is already resolved to, or the pending promise it follows),
\* and the in-flight map and promise list afterwards.  A new promise starts its
\* first backend call at once: retryOperation(..., 2, 1000).
generateSpeech(text, cache, inflight, proms) ==
  IF text = <<>>
  THEN [ret |-> [kind |-> "value", value |-> EmptyAudio],
        inflight |-> inflight, promises |-> proms]
  ELSE LET trimmed == Trim(text)
           cached == getCachedTTS(cache, trimmed)
       IN  IF cached # Null
           THEN [ret |-> [kind |-> "value", value |-> cached],
                 inflight |-> inflight, promises |-> proms]
           ELSE IF MapHas(inflight, trimmed)
           THEN [ret |-> [kind |-> "promise", id |-> MapGet(inflight, trimmed).value],
                 inflight |-> inflight, promises |-> proms]
           ELSE [ret |-> [kind |-> "promise", id |-> Len(proms) + 1],
                 inflight |-> MapSet(inflight, [key |-> trimmed, value |-> Len(proms) + 1]),
                 promises |-> Append(proms,
                    [key |-> trimmed, state |-> "calling", retries |-> DEFAULT_RETRIES,
                     delay |-> DEFAULT_DELAY, outcome |-> Null, cleaned |-> FALSE])]

\* a promise reaction is ready to run: tasks wait for it
SpeechMicrotaskReady ==
  \E i \in 1..Len(promises) : PromiseSettled(promises[i]) /\ ~promises[i].cleaned

\* the backend answers an attempt with audio: setCachedTTS, and the promise resolves
SpeechAttemptResolves(i) ==
  /\ i \in 1..Len(promises)
  /\ promises[i].state = "calling"
  /\ LET data == AudioFor(promises[i].key)
     IN  /\ ttsCache' = setCachedTTS(ttsCache, promises[i].key, data)
         /\ promises' = [promises EXCEPT ![i].state = "resolved",
                                         ![i].outcome = [value |-> data]]

\* an attempt fails (an error of the transport, or "No audio data returned")
SpeechAttemptRejects(i, e) ==
  /\ i \in 1..Len(promises)
  /\ promises[i].state = "calling"
  /\ LET c == RetryCatch(promises[i].retries, promises[i].delay, e)
     IN  promises' =
           IF c.do = "throw"
           THEN [promises EXCEPT ![i].state = "rejected", ![i].outcome = [error |-> c.error]]
           ELSE [promises EXCEPT ![i].state = "waiting", ![i].retries = c.retries,
                                 ![i].delay = c.delay]
  /\ UNCHANGED ttsCache

\* the backoff timer of a synthesis retry fires: the next attempt starts
SpeechBackoffTimerFires(i) ==
  /\ i \in 1..Len(promises)
  /\ promises[i].state = "waiting"
  /\ promises' = [promises EXCEPT ![i].state = "calling"]
  /\ UNCHANGED ttsCache

\* a cleanup that runs on fulfilment only, as a .then(() => inflightTTS.delete(trimmed))
SpeechFinallyOnSuccess(i) ==
  /\ i \in 1..Len(promises)
  /\ PromiseSettled(promises[i])
  /\ ~promises[i].cleaned
  /\ inflightTTS' = IF promises[i].state = "resolved"
                    THEN MapDelete(inflightTTS, promises[i].key)
                    ELSE inflightTTS
  /\ promises' = [promises EXCEPT ![i].cleaned = TRUE]
  /\ UNCHANGED ttsCache

\* promise.finally(() => inflightTTS.delete(trimmed))
SpeechFinally(i) ==
  /\ i \in 1..Len(promises)
  /\ PromiseSettled(promises[i])
  /\ ~promises[i].cleaned
  /\ inflightTTS' = MapDelete(inflightTTS, promises[i].key)
  /\ promises' = [promises EXCEPT ![i].cleaned = TRUE]
  /\ UNCHANGED ttsCache

(***************************************************************************)
(* TranslationBox / App / InputArea: the request orchestrator              *)
(***************************************************************************)
UNDEF == "undefined"    \* an optional string that is not set

\* inputs of translate: typed text, or a recorded Blob (which has no text)
TextInputs == {<<" ", "A">>}
BlobInput == <<"[Blob]">>
AUDIO_INPUT == <<"Audio Input">>
PROCESSING_AUDIO == <<"Processing Audio...">>

\* the k-th fragment of a translation stream, and the notice translateTextStream yields
Fragment(k) == IF k = 1 THEN <<"x">> ELSE IF k = 2 THEN <<"y">> ELSE <<"z">>
QUOTA_NOTICE == <<" [System: API Quota Exceeded. Please slow down.]">>

\* results of enrichTranslationMetadata: a parsed answer, and its parse-failure default
MetadataResults ==
  { [tags |-> <<"Hype">>, visual_description |-> "neon"],
    [tags |-> <<>>, visual_description |-> "Abstract"] }

\* results of translateText
LegacyResults == { [slang |-> <<"z">>, visual_description |-> "shape", tags |-> <<"Toxic">>] }

\* failures of the stream: a plain one, one with a marker that translateTextStream
\* tests for, and one with the marker that only retryOperation tests for
FlowErrors == {e \in Errors : e.markers \in {{}, {"429"}, {"resource exhausted"}}}
\* failures of the other backend calls of a translate call
PlainErrors == {e \in Errors : e.markers = {}}

\* the quota test of translateTextStream's catch: '429' or 'quota' only
IsStreamQuotaError(e) == "429" \in e.markers \/ "quota" \in e.markers

STATUS_IDLE == "idle"
STATUS_TRANSLATING == "translating_text"
STATUS_LOADING_ASSETS == "loading_assets"
STATUS_SUCCESS == "success"
STATUS_ERROR == "error"

LoadingState(status, message) == [status |-> status, message |-> message]

TranslationRecord(id, original, translated, prompt, tags, t, src, tgt, audio) ==
  [id |-> id, originalText |-> original, translatedText |-> translated,
   imagePrompt |-> prompt, tags |-> tags, timestamp |-> t,
   sourceLang |-> src, targetLang |-> tgt, audioData |-> audio]

\* a field of a cached TranslationResultPartial that may be missing
CachedAudio(d) == IF "audioData" \in DOMAIN d THEN d.audioData ELSE Null
AudioTruthy(a) == a # Null /\ a # EmptyAudio
TextTruthy(str) == str # UNDEF /\ str # ""

\* a commit that prepends and never drops a record
handleNewTranslationNoCap(prev, record) ==
  <<record>> \o prev

\* App.handleNewTranslation: [record, ...prev].slice(0, 50)
handleNewTranslation(prev, record) ==
  SubSeq(<<record>> \o prev, 1, Min(Len(prev) + 1, HISTORY_LIMIT))

\* setCurrentResult(prev => prev ? { ...prev, ...patch } : null)
PatchResult(prev, patch) == IF prev = Null THEN Null ELSE SpreadMerge(prev, patch)

NoRetry == [st |-> "none", retries |-> 0, delay |-> 0, value |-> Null]
NoAudioTask == [st |-> "none", promise |-> 0, value |-> Null]

\* line 48: cachedData && cachedData.audioData
FullCacheHit(cachedData) == cachedData # Null /\ AudioTruthy(CachedAudio(cachedData))

\* the record of lines 51-61 without its audio payload
CachedRecordNoAudio(requestId, originalText, cachedData, t, src, tgt) ==
  TranslationRecord(requestId, originalText, cachedData.slang,
                    cachedData.visual_description, cachedData.tags, t, src, tgt, Null)

\* lines 51-61: the record built from a full cache hit
CachedRecord(requestId, originalText, cachedData, t, src, tgt) ==
  TranslationRecord(requestId, originalText, cachedData.slang,
                    cachedData.visual_description, cachedData.tags, t, src, tgt,
                    CachedAudio(cachedData))

\* Returned for an activation that goes on running after its return statement
ReturnedKeepsRunning(call) == call

\* an activation of handleTranslate that has returned: its locals are dead, what
\* stays is what it was called for and the counts of what it did
Returned(call) ==
  [call EXCEPT !.pc = "done", !.source = <<>>, !.target = <<>>,
               !.cachedData = Null, !.finalText = <<>>, !.record = Null, !.audio = NoAudioTask, !.meta = NoRetry,
               !.fallback = NoRetry, !.closureHasText = FALSE, !.chunks = 0,
               !.streamClosing = FALSE, !.streamError = Null]

\* the guard of lines 49, 73, 89, 96, 122, 144, 162, 180, 188
IsActive(call) == activeRequestId = call.requestId

\* IsActive for a careless guard that lets every continuation through
IsActiveAlways(call) == call.requestId = call.requestId

\* the asset phase started with an enrichment call whatever the cache holds
BeginAssetsAlwaysEnrich(call, finalText) ==
  LET cached == call.cachedData
      record == TranslationRecord(call.requestId, call.originalText, finalText,
                   IF cached # Null THEN cached.visual_description ELSE UNDEF,
                   IF cached # Null THEN cached.tags ELSE <<>>,
                   now, call.source, call.target, Null)
      g == generateSpeech(finalText, ttsCache, inflightTTS, promises)
      startsChain == Len(g.promises) > Len(promises)
      metaCached == FALSE
  IN  [ call |-> [call EXCEPT
          !.pc = "assets",
          !.finalText = finalText,
          !.record = record,
          !.audio = IF g.ret.kind = "value"
                    THEN [st |-> "value", promise |-> 0, value |-> g.ret.value]
                    ELSE [st |-> "promise", promise |-> g.ret.id, value |-> Null],
          !.meta = IF metaCached
                   THEN [NoRetry EXCEPT
                           !.st = "value",
                           !.value = [tags |-> cached.tags,
                                      visual_description |-> cached.visual_description]]
                   ELSE [NoRetry EXCEPT !.st = "calling", !.retries = DEFAULT_RETRIES,
                                        !.delay = DEFAULT_DELAY],
          !.backend = @ + (IF startsChain THEN 1 ELSE 0) + (IF metaCached THEN 0 ELSE 1)],
        currentResult |-> record,
        inflight |-> g.inflight,
        promises |-> g.promises ]

\* lines 96-160 for a call whose final text is known and that is still active:
\* the baseline record, the audio task and the metadata task
BeginAssets(call, finalText) ==
  LET cached == call.cachedData
      record == TranslationRecord(call.requestId, call.originalText, finalText,
                   IF cached # Null THEN cached.visual_description ELSE UNDEF,
                   IF cached # Null THEN cached.tags ELSE <<>>,
                   now, call.source, call.target, Null)
      g == generateSpeech(finalText, ttsCache, inflightTTS, promises)
      startsChain == Len(g.promises) > Len(promises)
      metaCached == cached # Null /\ TextTruthy(cached.visual_description)
  IN  [ call |-> [call EXCEPT
          !.pc = "assets",
          !.finalText = finalText,
          !.record = record,
          !.audio = IF g.ret.kind = "value"
                    THEN [st |-> "value", promise |-> 0, value |-> g.ret.value]
                    ELSE [st |-> "promise", promise |-> g.ret.id, value |-> Null],
          !.meta = IF metaCached
                   THEN [NoRetry EXCEPT
                           !.st = "value",
                           !.value = [tags |-> cached.tags,
                                      visual_description |-> cached.visual_description]]
                   ELSE [NoRetry EXCEPT !.st = "calling", !.retries = DEFAULT_RETRIES,
                                        !.delay = DEFAULT_DELAY],
          !.backend = @ + (IF startsChain THEN 1 ELSE 0) + (IF metaCached THEN 0 ELSE 1)],
        currentResult |-> record,
        inflight |-> g.inflight,
        promises |-> g.promises ]

AudioTaskReady(call) ==
  \/ call.audio.st = "value"
  \/ call.audio.st = "promise" /\ PromiseSettled(promises[call.audio.promise])

MetaTaskReady(call) == call.meta.st \in {"value", "failed"}

\* a promise reaction of the orchestrator is ready to run
OrchMicrotaskReady ==
  \E c \in 1..Len(calls) :
    \/ calls[c].pc = "streaming" /\ calls[c].streamClosing
    \/ /\ calls[c].pc = "assets"
       /\ \/ AudioTaskReady(calls[c])
          \/ MetaTaskReady(calls[c])
          \/ calls[c].audio.st = "settled" /\ calls[c].meta.st = "settled"

\* tasks (user events, network answers, timers) start only when no microtask is ready
MicrotaskReady == SpeechMicrotaskReady \/ OrchMicrotaskReady

RECURSIVE SumOver(_, _)
SumOver(f, n) == IF n = 0 THEN 0 ELSE f[n] + SumOver(f, n - 1)

\* failed backend attempts so far, over the streams, the retried calls and the syntheses
FailedAttempts ==
  SumOver([c \in 1..Len(calls) |-> calls[c].failures], Len(calls))
  + SumOver([i \in 1..Len(promises) |->
               (DEFAULT_RETRIES - promises[i].retries)
                 + (IF promises[i].state = "rejected" THEN 1 ELSE 0)], Len(promises))

MayFail == FailedAttempts < budget.failures

OrchestratorMounted ==
  /\ activeRequestId = 0
  /\ loadingState = LoadingState(STATUS_IDLE, "")
  /\ currentResult = Null
  /\ history = <<>>
  /\ calls = <<>>
  /\ sourceLang = LANG_AUTO
  /\ targetLang = LANG_ZH
  /\ userEvents = 0

\* handleTranslate(input, sourceLang, targetLang), up to its first await or return
Translate(input, isText) ==
  /\ ~MicrotaskReady
  /\ Len(calls) < budget.calls
  /\ budget.overlap \/ \A c \in 1..Len(calls) : calls[c].pc = "done"
  /\ LET requestId == now
         cacheKey == IF isText THEN generateCacheKey(input, sourceLang, targetLang) ELSE <<>>
         cachedData == IF isText THEN getCachedTranslation(translationCache, cacheKey)
                       ELSE Null
         originalText == IF isText THEN input ELSE AUDIO_INPUT
         call == [pc |-> "streaming", requestId |-> requestId, isText |-> isText,
                  source |-> sourceLang, target |-> targetLang,
                  cacheKey |-> cacheKey, cachedData |-> cachedData,
                  originalText |-> originalText, finalText |-> <<>>, record |-> Null,
                  audio |-> NoAudioTask, meta |-> NoRetry, fallback |-> NoRetry,
                  closureHasText |-> (currentResult # Null
                                        /\ currentResult.translatedText # <<>>),
                  chunks |-> 0, streamClosing |-> FALSE, streamError |-> Null,
                  failures |-> 0, backend |-> 0,
                  commits |-> 0]
     IN  /\ activeRequestId' = requestId
         /\ translationCache' = IF isText
                                THEN TouchCachedTranslation(translationCache, cacheKey, now)
                                ELSE translationCache
         /\ IF FullCacheHit(cachedData)
            THEN \* Strategy A
                 LET record == CachedRecord(requestId, originalText, cachedData, now,
                                            sourceLang, targetLang)
                 IN  /\ currentResult' = record
                     /\ loadingState' = LoadingState(STATUS_SUCCESS, "")
                     /\ history' = handleNewTranslation(history, record)
                     /\ calls' = Append(calls, Returned([call EXCEPT !.commits = 1]))
                     /\ UNCHANGED <<inflightTTS, promises>>
            ELSE IF cachedData # Null
            THEN \* Strategy B with cached text: no stream, straight to the assets
                 LET b == BeginAssets(call, cachedData.slang)
                 IN  /\ Len(b.promises) <= MaxPromises
                     /\ currentResult' = b.currentResult
                     /\ loadingState' = LoadingState(STATUS_LOADING_ASSETS, "")
                     /\ calls' = Append(calls, b.call)
                     /\ inflightTTS' = b.inflight
                     /\ promises' = b.promises
                     /\ UNCHANGED history
            ELSE \* Strategy B: the skeleton record, and the stream is requested
                 /\ currentResult' =
                      TranslationRecord(requestId,
                                        IF isText THEN input ELSE PROCESSING_AUDIO,
                                        <<>>, UNDEF, <<>>, now, sourceLang, targetLang, Null)
                 /\ loadingState' = LoadingState(STATUS_TRANSLATING, "")
                 /\ calls' = Append(calls, [call EXCEPT !.backend = 1])
                 /\ UNCHANGED <<history, inflightTTS, promises>>
  /\ touchOrder' = IF isText /\ MapHas(translationCache, generateCacheKey(input, sourceLang,
                                                                         targetLang))
                   THEN Touched(touchOrder, generateCacheKey(input, sourceLang, targetLang))
                   ELSE touchOrder
  /\ UNCHANGED <<ia, rt, dec, ck, rd, budget, now, reverseTranslationCache, ttsCache, speakers, sourceLang,
                 targetLang, userEvents>>

\* the loop body of `for await (const chunk of stream)` for one fragment
ConsumeChunk(c, chunk, closing, err) ==
  IF IsActive(calls[c])
  THEN /\ calls' = [calls EXCEPT ![c].finalText = @ \o chunk, ![c].chunks = @ + 1,
                                 ![c].streamClosing = closing, ![c].streamError = err,
                                 ![c].failures = @ + (IF closing THEN 1 ELSE 0)]
       /\ currentResult' = PatchResult(currentResult,
                                       [translatedText |-> calls[c].finalText \o chunk])
  ELSE /\ calls' = [calls EXCEPT ![c] = Returned([@ EXCEPT !.failures =
                                                       @ + (IF closing THEN 1 ELSE 0)])]
       /\ UNCHANGED currentResult

\* the backend delivers a fragment
StreamChunk(c) ==
  /\ ~MicrotaskReady
  /\ c \in 1..Len(calls)
  /\ calls[c].pc = "streaming"
  /\ calls[c].chunks < MaxFragments
  /\ ConsumeChunk(c, Fragment(calls[c].chunks + 1), FALSE, Null)
  /\ UNCHANGED <<ia, rt, dec, ck, rd, budget, cacheVars, speechVars, activeRequestId, loadingState, history,
                 sourceLang, targetLang, userEvents>>

\* the backend stream fails with a quota error: translateTextStream yields its
\* notice as a last fragment and returns
StreamQuotaNotice(c, e) ==
  /\ ~MicrotaskReady
  /\ MayFail
  /\ c \in 1..Len(calls)
  /\ calls[c].pc = "streaming"
  /\ IsStreamQuotaError(e)
  /\ ConsumeChunk(c, QUOTA_NOTICE, TRUE, e)
  /\ UNCHANGED <<ia, rt, dec, ck, rd, budget, cacheVars, speechVars, activeRequestId, loadingState, history,
                 sourceLang, targetLang, userEvents>>

\* the stream is exhausted: lines 96-160
StreamEnds(c) ==
  /\ c \in 1..Len(calls)
  /\ calls[c].pc = "streaming"
  /\ calls[c].streamClosing \/ ~MicrotaskReady
  /\ IF IsActive(calls[c])
     THEN LET b == BeginAssets(calls[c], calls[c].finalText)
          IN  /\ Len(b.promises) <= MaxPromises
              /\ loadingState' = LoadingState(STATUS_LOADING_ASSETS, "")
              /\ currentResult' = b.currentResult
              /\ calls' = [calls EXCEPT ![c] = b.call]
              /\ inflightTTS' = b.inflight
              /\ promises' = b.promises
     ELSE /\ calls' = [calls EXCEPT ![c] = Returned(@)]
          /\ UNCHANGED <<loadingState, currentResult, inflightTTS, promises>>
  /\ UNCHANGED <<ia, rt, dec, ck, rd, budget, cacheVars, speakers, activeRequestId, history, sourceLang,
                 targetLang, userEvents>>

\* the stream throws (no quota marker seen by translateTextStream): the catch
\* block of lines 179-208 up to its await or end
StreamThrows(c, e) ==
  /\ ~MicrotaskReady
  /\ MayFail
  /\ c \in 1..Len(calls)
  /\ calls[c].pc = "streaming"
  /\ ~IsStreamQuotaError(e)
  /\ IF ~IsActive(calls[c])
     THEN /\ calls' = [calls EXCEPT ![c] = Returned([@ EXCEPT !.failures = @ + 1])]
          /\ UNCHANGED loadingState
     ELSE IF ~calls[c].closureHasText
     THEN \* await translateText(input, source, target)
          /\ calls' = [calls EXCEPT ![c].pc = "fallback", ![c].backend = @ + 1,
                         ![c].failures = @ + 1, ![c].streamError = e,
                         ![c].fallback = [NoRetry EXCEPT !.st = "calling",
                                                         !.retries = DEFAULT_RETRIES,
                                                         !.delay = DEFAULT_DELAY]]
          /\ UNCHANGED loadingState
     ELSE /\ calls' = [calls EXCEPT ![c] = Returned([@ EXCEPT !.failures = @ + 1])]
          /\ loadingState' = LoadingState(STATUS_ERROR, "Asset generation incomplete.")
  /\ UNCHANGED <<ia, rt, dec, ck, rd, budget, cacheVars, speechVars, activeRequestId, currentResult, history,
                 sourceLang, targetLang, userEvents>>

\* the reaction of audioPromise: the .then of lines 121-131 and the .catch of 132-135
AudioSettles(c) ==
  /\ c \in 1..Len(calls)
  /\ calls[c].pc = "assets"
  /\ AudioTaskReady(calls[c])
  /\ LET a == calls[c].audio
         fulfilled == a.st = "value" \/ promises[a.promise].state = "resolved"
         audioBase64 == IF a.st = "value" THEN a.value ELSE promises[a.promise].outcome.value
     IN  IF fulfilled /\ IsActive(calls[c])
         THEN /\ calls' = [calls EXCEPT ![c].audio = [a EXCEPT !.st = "settled"],
                                        ![c].record.audioData = audioBase64]
              /\ currentResult' = PatchResult(currentResult, [audioData |-> audioBase64])
         ELSE /\ calls' = [calls EXCEPT ![c].audio = [a EXCEPT !.st = "settled"]]
              /\ UNCHANGED currentResult
  /\ UNCHANGED <<ia, rt, dec, ck, rd, budget, cacheVars, speechVars, activeRequestId, loadingState, history,
                 sourceLang, targetLang, userEvents>>

\* one failed or answered attempt of a retried backend call of a call: the new
\* retry state
AttemptRejected(r, e) ==
  LET k == RetryCatch(r.retries, r.delay, e)
  IN  IF k.do = "throw"
      THEN [r EXCEPT !.st = "failed"]
      ELSE [r EXCEPT !.st = "waiting", !.retries = k.retries, !.delay = k.delay]

\* enrichTranslationMetadata answers
MetaAttemptResolves(c, m) ==
  /\ ~MicrotaskReady
  /\ c \in 1..Len(calls)
  /\ calls[c].pc = "assets"
  /\ calls[c].meta.st = "calling"
  /\ calls' = [calls EXCEPT ![c].meta = [@ EXCEPT !.st = "value", !.value = m]]
  /\ UNCHANGED <<ia, rt, dec, ck, rd, budget, cacheVars, speechVars, activeRequestId, loadingState,
                 currentResult, history, sourceLang, targetLang, userEvents>>

\* an attempt of enrichTranslationMetadata fails
MetaAttemptRejects(c, e) ==
  /\ ~MicrotaskReady
  /\ MayFail
  /\ c \in 1..Len(calls)
  /\ calls[c].pc = "assets"
  /\ calls[c].meta.st = "calling"
  /\ calls' = [calls EXCEPT ![c].meta = AttemptRejected(@, e), ![c].failures = @ + 1]
  /\ UNCHANGED <<ia, rt, dec, ck, rd, budget, cacheVars, speechVars, activeRequestId, loadingState,
                 currentResult, history, sourceLang, targetLang, userEvents>>

\* the backoff timer of the enrichment retry fires
MetaTimer(c) ==
  /\ ~MicrotaskReady
  /\ c \in 1..Len(calls)
  /\ calls[c].pc = "assets"
  /\ calls[c].meta.st = "waiting"
  /\ calls' = [calls EXCEPT ![c].meta.st = "calling", ![c].backend = @ + 1]
  /\ UNCHANGED <<ia, rt, dec, ck, rd, budget, cacheVars, speechVars, activeRequestId, loadingState,
                 currentResult, history, sourceLang, targetLang, userEvents>>

\* a metadata task whose failure ends the call with status error
MetaSettlesFatal(c) ==
  /\ c \in 1..Len(calls)
  /\ calls[c].pc = "assets"
  /\ MetaTaskReady(calls[c])
  /\ LET m == calls[c].meta
     IN  IF m.st = "value" /\ IsActive(calls[c])
         THEN /\ calls' = [calls EXCEPT ![c].meta = [m EXCEPT !.st = "settled"],
                                        ![c].record.tags = m.value.tags,
                                        ![c].record.imagePrompt = m.value.visual_description]
              /\ currentResult' =
                   PatchResult(currentResult,
                               [tags |-> m.value.tags,
                                imagePrompt |-> m.value.visual_description])
              /\ UNCHANGED loadingState
         ELSE /\ calls' = [calls EXCEPT ![c] = Returned(@)]
              /\ loadingState' = LoadingState(STATUS_ERROR, "Asset generation incomplete.")
              /\ UNCHANGED currentResult
  /\ UNCHANGED <<ia, rt, dec, ck, rd, budget, cacheVars, speechVars, activeRequestId, history,
                 sourceLang, targetLang, userEvents>>

\* the reaction of metadataPromise: the .then of lines 143-153 and the .catch of 153-156
MetaSettles(c) ==
  /\ c \in 1..Len(calls)
  /\ calls[c].pc = "assets"
  /\ MetaTaskReady(calls[c])
  /\ LET m == calls[c].meta
     IN  IF m.st = "value" /\ IsActive(calls[c])
         THEN /\ calls' = [calls EXCEPT ![c].meta = [m EXCEPT !.st = "settled"],
                                        ![c].record.tags = m.value.tags,
                                        ![c].record.imagePrompt = m.value.visual_description]
              /\ currentResult' =
                   PatchResult(currentResult,
                               [tags |-> m.value.tags,
                                imagePrompt |-> m.value.visual_description])
         ELSE /\ calls' = [calls EXCEPT ![c].meta = [m EXCEPT !.st = "settled"]]
              /\ UNCHANGED currentResult
  /\ UNCHANGED <<ia, rt, dec, ck, rd, budget, cacheVars, speechVars, activeRequestId, loadingState, history,
                 sourceLang, targetLang, userEvents>>

\* a finalization that waits for the metadata task only
FinalizeEarly(c) ==
  /\ c \in 1..Len(calls)
  /\ calls[c].pc = "assets"
  /\ calls[c].meta.st = "settled"
  /\ calls' = [calls EXCEPT ![c] = Returned([@ EXCEPT !.commits =
                                       @ + (IF IsActive(calls[c]) THEN 1 ELSE 0)])]
  /\ IF IsActive(calls[c])
     THEN LET r == calls[c].record
          IN  /\ history' = handleNewTranslation(history, r)
              /\ translationCache' =
                   IF calls[c].cacheKey # <<>>
                   THEN setCachedTranslation(translationCache, calls[c].cacheKey,
                          [slang |-> calls[c].finalText, tags |-> r.tags,
                           visual_description |->
                             IF TextTruthy(r.imagePrompt) THEN r.imagePrompt ELSE "",
                           audioData |-> r.audioData], now)
                   ELSE translationCache
              /\ loadingState' = LoadingState(STATUS_SUCCESS, "")
     ELSE UNCHANGED <<history, translationCache, loadingState>>
  /\ touchOrder' = IF IsActive(calls[c]) /\ calls[c].cacheKey # <<>>
                   THEN Touched(SelectSeq(touchOrder,
                                          LAMBDA x : MapHas(translationCache', x)),
                                calls[c].cacheKey)
                   ELSE touchOrder
  /\ UNCHANGED <<ia, rt, dec, ck, rd, budget, now, reverseTranslationCache, ttsCache, speechVars,
                 activeRequestId, currentResult, sourceLang, targetLang, userEvents>>

\* after Promise.allSettled: lines 162-177
Finalize(c) ==
  /\ c \in 1..Len(calls)
  /\ calls[c].pc = "assets"
  /\ calls[c].audio.st = "settled"
  /\ calls[c].meta.st = "settled"
  /\ calls' = [calls EXCEPT ![c] = Returned([@ EXCEPT !.commits =
                                       @ + (IF IsActive(calls[c]) THEN 1 ELSE 0)])]
  /\ IF IsActive(calls[c])
     THEN LET r == calls[c].record
          IN  /\ history' = handleNewTranslation(history, r)
              /\ translationCache' =
                   IF calls[c].cacheKey # <<>>
                   THEN setCachedTranslation(translationCache, calls[c].cacheKey,
                          [slang |-> calls[c].finalText, tags |-> r.tags,
                           visual_description |->
                             IF TextTruthy(r.imagePrompt) THEN r.imagePrompt ELSE "",
                           audioData |-> r.audioData], now)
                   ELSE translationCache
              /\ loadingState' = LoadingState(STATUS_SUCCESS, "")
     ELSE UNCHANGED <<history, translationCache, loadingState>>
  /\ touchOrder' = IF IsActive(calls[c]) /\ calls[c].cacheKey # <<>>
                   THEN Touched(SelectSeq(touchOrder,
                                          LAMBDA x : MapHas(translationCache', x)),
                                calls[c].cacheKey)
                   ELSE touchOrder
  /\ UNCHANGED <<ia, rt, dec, ck, rd, budget, now, reverseTranslationCache, ttsCache, speechVars,
                 activeRequestId, currentResult, sourceLang, targetLang, userEvents>>

\* translateText answers: lines 188-201
FallbackResolves(c, d) ==
  /\ ~MicrotaskReady
  /\ c \in 1..Len(calls)
  /\ calls[c].pc = "fallback"
  /\ calls[c].fallback.st = "calling"
  /\ calls' = [calls EXCEPT ![c] = Returned([@ EXCEPT !.commits =
                                       @ + (IF IsActive(calls[c]) THEN 1 ELSE 0)])]
  /\ IF IsActive(calls[c])
     THEN LET legacyRecord ==
                TranslationRecord(calls[c].requestId, calls[c].originalText, d.slang, UNDEF,
                                  d.tags, now, calls[c].source, calls[c].target, Null)
          IN  /\ currentResult' = legacyRecord
              /\ history' = handleNewTranslation(history, legacyRecord)
              /\ loadingState' = LoadingState(STATUS_SUCCESS, "")
     ELSE UNCHANGED <<currentResult, history, loadingState>>
  /\ UNCHANGED <<ia, rt, dec, ck, rd, budget, cacheVars, speechVars, activeRequestId, sourceLang, targetLang, userEvents>>

\* a fallback whose last failed attempt leaves the status as it is
FallbackRejectsSilent(c, e) ==
  /\ ~MicrotaskReady
  /\ MayFail
  /\ c \in 1..Len(calls)
  /\ calls[c].pc = "fallback"
  /\ calls[c].fallback.st = "calling"
  /\ LET r == AttemptRejected(calls[c].fallback, e)
     IN  IF r.st = "failed"
         THEN calls' = [calls EXCEPT ![c] = Returned([@ EXCEPT !.failures = @ + 1])]
         ELSE calls' = [calls EXCEPT ![c].fallback = r, ![c].failures = @ + 1]
  /\ UNCHANGED <<ia, rt, dec, ck, rd, budget, cacheVars, speechVars, activeRequestId, loadingState,
                 currentResult, history, sourceLang, targetLang, userEvents>>

\* an attempt of translateText fails; after the last one: lines 202-204
FallbackRejects(c, e) ==
  /\ ~MicrotaskReady
  /\ MayFail
  /\ c \in 1..Len(calls)
  /\ calls[c].pc = "fallback"
  /\ calls[c].fallback.st = "calling"
  /\ LET r == AttemptRejected(calls[c].fallback, e)
     IN  IF r.st = "failed"
         THEN /\ calls' = [calls EXCEPT ![c] = Returned([@ EXCEPT !.failures = @ + 1])]
              /\ loadingState' = LoadingState(STATUS_ERROR, "Translation failed.")
         ELSE /\ calls' = [calls EXCEPT ![c].fallback = r, ![c].failures = @ + 1]
              /\ UNCHANGED loadingState
  /\ UNCHANGED <<ia, rt, dec, ck, rd, budget, cacheVars, speechVars, activeRequestId, currentResult, history,
                 sourceLang, targetLang, userEvents>>

\* the backoff timer of the translateText retry fires
FallbackTimer(c) ==
  /\ ~MicrotaskReady
  /\ c \in 1..Len(calls)
  /\ calls[c].pc = "fallback"
  /\ calls[c].fallback.st = "waiting"
  /\ calls' = [calls EXCEPT ![c].fallback.st = "calling", ![c].backend = @ + 1]
  /\ UNCHANGED <<ia, rt, dec, ck, rd, budget, cacheVars, speechVars, activeRequestId, loadingState,
                 currentResult, history, sourceLang, targetLang, userEvents>>

\* the inverted record that keeps the audio payload of the record it inverts
InvertedRecordKeepsAudio(r, newSource, newTarget) ==
  [r EXCEPT !.originalText = r.translatedText,
            !.translatedText = r.originalText,
            !.sourceLang = newSource,
            !.targetLang = newTarget]

\* the invertedRecord of handleSwap: { ...currentResult, ... }
InvertedRecord(r, newSource, newTarget) ==
  [r EXCEPT !.originalText = r.translatedText,
            !.translatedText = r.originalText,
            !.sourceLang = newSource,
            !.targetLang = newTarget,
            !.audioData = Null]

\* InputArea.handleSwap, with TranslationBox.handleSwapContent
handleSwap ==
  /\ ~MicrotaskReady
  /\ userEvents < budget.events
  /\ userEvents' = userEvents + 1
  /\ LET newSource == targetLang
         newTarget == IF sourceLang = LANG_AUTO THEN LANG_EN ELSE sourceLang
     IN  /\ IF currentResult # Null
            THEN LET invertedRecord == InvertedRecord(currentResult, newSource, newTarget)
                 IN  /\ currentResult' = invertedRecord
                     /\ history' = handleNewTranslation(history, invertedRecord)
            ELSE UNCHANGED <<currentResult, history>>
         /\ sourceLang' = newSource
         /\ targetLang' = newTarget
  /\ UNCHANGED <<ia, rt, dec, ck, rd, budget, cacheVars, speechVars, activeRequestId, loadingState, calls>>

\* the source selector offers every language, the target selector all but 'auto'
SetSourceLang(l) ==
  /\ ~MicrotaskReady
  /\ userEvents < budget.events
  /\ userEvents' = userEvents + 1
  /\ l # sourceLang
  /\ sourceLang' = l
  /\ UNCHANGED <<ia, rt, dec, ck, rd, budget, cacheVars, speechVars, activeRequestId, loadingState,
                 currentResult, history, calls, targetLang>>

SetTargetLang(l) ==
  /\ ~MicrotaskReady
  /\ userEvents < budget.events
  /\ userEvents' = userEvents + 1
  /\ l # targetLang
  /\ l # LANG_AUTO
  /\ targetLang' = l
  /\ UNCHANGED <<ia, rt, dec, ck, rd, budget, cacheVars, speechVars, activeRequestId, loadingState,
                 currentResult, history, calls, sourceLang>>

\* App.handleClearHistory
handleClearHistory ==
  /\ ~MicrotaskReady
  /\ userEvents < budget.events
  /\ userEvents' = userEvents + 1
  /\ history' = <<>>
  /\ UNCHANGED <<ia, rt, dec, ck, rd, budget, cacheVars, speechVars, activeRequestId, loadingState,
                 currentResult, calls, sourceLang, targetLang>>

\* failures of a synthesis attempt: a plain one and one with a quota marker
SpeechErrors == {e \in Errors : e.markers \in {{}, {"429"}}}

\* texts handed to generateSpeech
SpeechTexts == {<<>>, <<"x">>, <<"x", " ">>, <<"y">>}

NoSpeaker == [count |-> 0, text |-> <<>>, ret |-> Null, joined |-> FALSE]

\* a direct caller (the popup's play buttons): await generateSpeech(text)
CallGenerateSpeech(text) ==
  /\ ~MicrotaskReady
  /\ speakers.count < MaxSpeechCalls
  /\ Len(promises) < MaxPromises
  /\ LET g == generateSpeech(text, ttsCache, inflightTTS, promises)
     IN  /\ inflightTTS' = g.inflight
         /\ promises' = g.promises
         /\ speakers' = [count |-> speakers.count + 1, text |-> text, ret |-> g.ret,
                         joined |-> g.ret.kind = "promise" /\ g.ret.id <= Len(promises)]
  /\ UNCHANGED <<ia, rt, dec, ck, rd, cacheVars, orchVars>>

SpeechBackendResolves(i) ==
  /\ ~MicrotaskReady
  /\ SpeechAttemptResolves(i)
  /\ UNCHANGED <<ia, rt, dec, ck, rd, now, translationCache, reverseTranslationCache, touchOrder,
                 inflightTTS, speakers, orchVars>>

SpeechBackendRejects(i, e) ==
  /\ ~MicrotaskReady
  /\ SpeechAttemptRejects(i, e)
  /\ UNCHANGED <<ia, rt, dec, ck, rd, now, translationCache, reverseTranslationCache, touchOrder,
                 inflightTTS, speakers, orchVars>>

\* a failing synthesis attempt within a run of the orchestrator
SpeechBackendFails(i, e) ==
  /\ MayFail
  /\ SpeechBackendRejects(i, e)

SpeechTimer(i) ==
  /\ ~MicrotaskReady
  /\ SpeechBackoffTimerFires(i)
  /\ UNCHANGED <<ia, rt, dec, ck, rd, now, translationCache, reverseTranslationCache, touchOrder,
                 inflightTTS, speakers, orchVars>>

SpeechCleanup(i) ==
  /\ SpeechFinally(i)
  /\ UNCHANGED <<ia, rt, dec, ck, rd, now, translationCache, reverseTranslationCache, touchOrder,
                 speakers, orchVars>>

(***************************************************************************)
(* ResultDisplay: the reverse-translation popup                            *)
(***************************************************************************)
MaxSelectionTimers == 2   \* pending 50 ms timers of handleSelectionChange

ResultDisplayIdle == [pc |-> "idle"]

\* window.getSelection(): null, a collapsed selection (whose text is empty), or
\* a range with its text and whether its anchor node lies in the text container
SelectionTexts == {<<>>, <<" ">>, <<"a">>, <<" ", "a", " ">>, <<"b">>}
WindowSelections ==
  {Null, [isCollapsed |-> TRUE, text |-> <<>>, anchorInside |-> TRUE],
         [isCollapsed |-> TRUE, text |-> <<>>, anchorInside |-> FALSE]}
    \cup {[isCollapsed |-> FALSE, text |-> t, anchorInside |-> a] :
            t \in SelectionTexts, a \in BOOLEAN}

\* range.getBoundingClientRect() and the scroll offsets of the window
SelectionRect == [left |-> 100, top |-> 100, width |-> 50]
ScrollX == 0
ScrollY == 0

\* the records shown: result is the visible record of TranslationBox
DisplayedRecords ==
  {TranslationRecord(1, <<"A">>, <<"a", " ", "b">>, UNDEF, <<>>, 0, s, LANG_ZH, Null) :
     s \in LanguageCodes}

\* the callback of the timer set by handleSelectionChange: the next selectionState
SelectionCallback(state, selection, hasContainer) ==
  IF selection = Null \/ selection.isCollapsed \/ ~hasContainer
  THEN IF selection = Null \/ selection.text = <<>> THEN Null ELSE state
  ELSE IF Len(Trim(selection.text)) < 1 THEN Null
  ELSE IF ~selection.anchorInside THEN state
  ELSE [text |-> Trim(selection.text),
        position |-> [x |-> SelectionRect.left + ScrollX + (SelectionRect.width \div 2),
                      y |-> SelectionRect.top + ScrollY]]

\* the props of ReverseTranslationPopup, or Null when it is not rendered
PopupProps(d) ==
  IF d.selectionState = Null THEN Null
  ELSE [text |-> d.selectionState.text,
        targetLangCode |-> IF d.result.sourceLang # <<>> THEN d.result.sourceLang
                           ELSE LANG_EN,
        position |-> d.selectionState.position]

\* the user changes the selection of the window
SelectionChanges(s) ==
  /\ rd.pc = "mounted"
  /\ rd.selection # s
  /\ rd' = [rd EXCEPT !.selection = s]
  /\ UNCHANGED <<ia, rt, dec, ck, cacheVars, speechVars, orchVars>>

\* onMouseUp / onTouchEnd / onKeyUp on the text container
handleSelectionChange ==
  /\ rd.pc = "mounted"
  /\ rd.timers < MaxSelectionTimers
  /\ rd' = [rd EXCEPT !.timers = @ + 1]
  /\ UNCHANGED <<ia, rt, dec, ck, cacheVars, speechVars, orchVars>>

\* a timer of handleSelectionChange fires; the container ref is set while the
\* component is mounted
SelectionTimerFires ==
  /\ rd.pc = "mounted"
  /\ rd.timers > 0
  /\ rd' = [rd EXCEPT !.timers = @ - 1,
                      !.selectionState = SelectionCallback(@, rd.selection, TRUE)]
  /\ UNCHANGED <<ia, rt, dec, ck, cacheVars, speechVars, orchVars>>

\* onClose of the popup
ClosePopup ==
  /\ rd.pc = "mounted"
  /\ rd.selectionState # Null
  /\ rd' = [rd EXCEPT !.selectionState = Null]
  /\ UNCHANGED <<ia, rt, dec, ck, cacheVars, speechVars, orchVars>>

(***************************************************************************)
(* InputArea: the debounced automatic submission, the explicit submit and  *)
(* the recorder                                                            *)
(***************************************************************************)
MaxInputEvents == 3    \* user actions on the input area in one run

PUNCTUATION_DELAY == 800
TYPING_DELAY == 1500

\* texts of the textarea: empty, blank, plain, and ending in punctuation
InputTexts == {<<>>, <<" ">>, <<"a">>, <<"a", ".">>}
\* the translatedText of the visible record, which a swap puts into the textarea
ResultText == <<"z">>

\* /[...,.;!?\n]/.test(inputText.slice(-1))
IsPunctuation(text) == text # <<>> /\ text[Len(text)] = "."
DebounceDelay(text) == IF IsPunctuation(text) THEN PUNCTUATION_DELAY ELSE TYPING_DELAY

\* the component before it is mounted
InputAreaIdle == [pc |-> "idle"]

\* the state after the first render and its effect: empty text, no timer
InputAreaMounted(hasResult) ==
  [pc |-> "mounted", inputText |-> <<>>, sourceLang |-> LANG_AUTO, targetLang |-> LANG_ZH,
   isRecording |-> FALSE, isTyping |-> FALSE, isSwappingRef |-> FALSE,
   debounceTimerRef |-> 0, cleanup |-> FALSE, timers |-> {}, nextTimer |-> 1,
   mic |-> "idle", translated |-> <<>>, events |-> 0, lastEvent |-> "mount",
   hasResult |-> hasResult]

\* clearTimeout(id): a cleared or fired timer is not pending any more
ClearTimeout(s, id) == [s EXCEPT !.timers = {t \in @ : t.id # id}]

\* onTranslate(input, sourceLang, targetLang)
OnTranslate(s, by, input, src, tgt) ==
  [s EXCEPT !.translated = Append(@, [by |-> by, input |-> input, src |-> src, tgt |-> tgt])]

\* The debounce effect of a render whose inputText, sourceLang or targetLang
\* changed: the cleanup of the previous run (if that run returned one), then the
\* body with the isRecording of this render.
DebounceEffect(s) ==
  LET cleaned == IF s.cleanup THEN ClearTimeout(s, s.debounceTimerRef) ELSE s
  IN  IF cleaned.isSwappingRef
      THEN [cleaned EXCEPT !.isSwappingRef = FALSE, !.isTyping = FALSE, !.cleanup = FALSE]
      ELSE IF Trim(cleaned.inputText) = <<>> \/ cleaned.isRecording
      THEN [cleaned EXCEPT !.isTyping = FALSE, !.cleanup = FALSE]
      ELSE LET cleared == ClearTimeout(cleaned, cleaned.debounceTimerRef)
           IN  [cleared EXCEPT
                  !.isTyping = TRUE,
                  !.timers = @ \cup {[id |-> cleared.nextTimer,
                                      delay |-> DebounceDelay(cleared.inputText),
                                      text |-> cleared.inputText,
                                      src |-> cleared.sourceLang,
                                      tgt |-> cleared.targetLang]},
                  !.debounceTimerRef = cleared.nextTimer,
                  !.nextTimer = @ + 1,
                  !.cleanup = TRUE]

\* a render after a state update: the effect runs when a dependency changed
Rerender(before, after) ==
  IF <<after.inputText, after.sourceLang, after.targetLang>>
       # <<before.inputText, before.sourceLang, before.targetLang>>
  THEN DebounceEffect(after)
  ELSE after

UserEvent(s, name) == [s EXCEPT !.events = @ + 1, !.lastEvent = name]
MayAct == ia.pc = "mounted" /\ ia.events < MaxInputEvents

\* onChange of the textarea (disabled while isRecording)
ChangeInputText(text) ==
  /\ MayAct
  /\ ~ia.isRecording
  /\ text # ia.inputText
  /\ ia' = Rerender(ia, [UserEvent(ia, "edit") EXCEPT !.inputText = text])
  /\ UNCHANGED <<rt, dec, ck, rd, cacheVars, speechVars, orchVars>>

\* onChange of the two language selectors
ChangeInputLanguage(src, tgt) ==
  /\ MayAct
  /\ <<src, tgt>> # <<ia.sourceLang, ia.targetLang>>
  /\ src = ia.sourceLang \/ tgt = ia.targetLang
  /\ ia' = Rerender(ia, [UserEvent(ia, "language") EXCEPT !.sourceLang = src,
                                                          !.targetLang = tgt])
  /\ UNCHANGED <<rt, dec, ck, rd, cacheVars, speechVars, orchVars>>

\* handleSwap as the input area sees it
SwapInputContent ==
  /\ MayAct
  /\ LET newSource == ia.targetLang
         newTarget == IF ia.sourceLang = LANG_AUTO THEN LANG_EN ELSE ia.sourceLang
         swapped == IF ia.hasResult
                    THEN [ia EXCEPT !.isSwappingRef = TRUE, !.inputText = ResultText]
                    ELSE ia
     IN  ia' = Rerender(ia, [UserEvent(swapped, "swap") EXCEPT !.sourceLang = newSource,
                                                               !.targetLang = newTarget])
  /\ UNCHANGED <<rt, dec, ck, rd, cacheVars, speechVars, orchVars>>

\* a submit that leaves the pending timer alone
handleTextSubmitKeepsTimer ==
  /\ MayAct
  /\ ~ia.isRecording
  /\ LET kept == [UserEvent(ia, "submit") EXCEPT !.isTyping = FALSE]
     IN  ia' = IF Trim(ia.inputText) # <<>>
               THEN OnTranslate(kept, "submit", ia.inputText, ia.sourceLang, ia.targetLang)
               ELSE kept
  /\ UNCHANGED <<rt, dec, ck, rd, cacheVars, speechVars, orchVars>>

\* Enter in the textarea
handleTextSubmit ==
  /\ MayAct
  /\ ~ia.isRecording
  /\ LET cleared == [ClearTimeout(UserEvent(ia, "submit"), ia.debounceTimerRef)
                       EXCEPT !.isTyping = FALSE]
     IN  ia' = IF Trim(ia.inputText) # <<>>
               THEN OnTranslate(cleared, "submit", ia.inputText, ia.sourceLang, ia.targetLang)
               ELSE cleared
  /\ UNCHANGED <<rt, dec, ck, rd, cacheVars, speechVars, orchVars>>

\* a pending debounce timer fires: the callback of the effect that set it
DebounceTimerFires ==
  /\ ia.pc = "mounted"
  /\ \E t \in ia.timers :
       ia' = [OnTranslate(ClearTimeout(ia, t.id), "debounce", t.text, t.src, t.tgt)
                EXCEPT !.isTyping = FALSE, !.lastEvent = "timer"]
  /\ UNCHANGED <<rt, dec, ck, rd, cacheVars, speechVars, orchVars>>

\* startRecording up to `await getUserMedia`
startRecording ==
  /\ MayAct
  /\ ia.mic = "idle"
  /\ ia' = [ClearTimeout(UserEvent(ia, "startRecording"), ia.debounceTimerRef)
              EXCEPT !.isTyping = FALSE, !.mic = "acquiring"]
  /\ UNCHANGED <<rt, dec, ck, rd, cacheVars, speechVars, orchVars>>

\* getUserMedia resolves: recorder.start(), setIsRecording(true)
MicrophoneGranted ==
  /\ ia.pc = "mounted"
  /\ ia.mic = "acquiring"
  /\ ia' = [ia EXCEPT !.mic = "recording", !.isRecording = TRUE, !.lastEvent = "granted"]
  /\ UNCHANGED <<rt, dec, ck, rd, cacheVars, speechVars, orchVars>>

\* getUserMedia rejects: the catch block
MicrophoneDenied ==
  /\ ia.pc = "mounted"
  /\ ia.mic = "acquiring"
  /\ ia' = [ia EXCEPT !.mic = "idle", !.isRecording = FALSE, !.lastEvent = "denied"]
  /\ UNCHANGED <<rt, dec, ck, rd, cacheVars, speechVars, orchVars>>

\* stopRecording and recorder.onstop, with a blob above or below 500 bytes
stopRecording(bigBlob) ==
  /\ ia.pc = "mounted"
  /\ ia.mic = "recording"
  /\ LET stopped == [ia EXCEPT !.mic = "idle", !.isRecording = FALSE, !.lastEvent = "stop"]
     IN  ia' = IF bigBlob
               THEN OnTranslate(stopped, "recording", BlobInput, ia.sourceLang, ia.targetLang)
               ELSE stopped
  /\ UNCHANGED <<rt, dec, ck, rd, cacheVars, speechVars, orchVars>>

(***************************************************************************)
(* Specifications                                                          *)
(***************************************************************************)
CachesEmpty ==
  /\ now = 0
  /\ translationCache = <<>>
  /\ reverseTranslationCache = <<>>
  /\ ttsCache = <<>>
  /\ touchOrder = <<>>
  /\ inflightTTS = <<>>
  /\ promises = <<>>
  /\ speakers = NoSpeaker
  /\ OrchestratorMounted

\* the services alone: no translate call, no user event
ServiceBudget ==
  [calls |-> 0, overlap |-> TRUE, clock |-> MaxClock, failures |-> 0, events |-> 0]

InitRetry ==
  /\ rt \in {RetryStart(r, d) : r \in 0..MaxRetries, d \in Delays}
  /\ dec = DecodeIdle
  /\ ck = CacheKeyIdle
  /\ rd = ResultDisplayIdle
  /\ ia = InputAreaIdle
  /\ CachesEmpty
  /\ budget = ServiceBudget

NextRetry ==
  \/ \E v \in Values : OperationResolves(v)
  \/ \E e \in Errors : OperationRejects(e)
  \/ BackoffTimerFires

SpecRetry == InitRetry /\ [][NextRetry]_vars

InitDecode ==
  /\ rt = RetryIdle
  /\ dec \in {[pc |-> "called", input |-> s, result |-> Null] : s \in SeqsUpTo(B64Chars, MaxB64Len)}
  /\ ck = CacheKeyIdle
  /\ rd = ResultDisplayIdle
  /\ ia = InputAreaIdle
  /\ CachesEmpty
  /\ budget = ServiceBudget

NextDecode == DecodeCall

SpecDecode == InitDecode /\ [][NextDecode]_vars

InitCacheKey ==
  /\ rt = RetryIdle
  /\ dec = DecodeIdle
  /\ ck \in {[pc |-> "called", a |-> a, b |-> b, ka |-> <<>>, kb |-> <<>>] :
               a \in CacheKeyInputs, b \in CacheKeyInputs}
  /\ rd = ResultDisplayIdle
  /\ ia = InputAreaIdle
  /\ CachesEmpty
  /\ budget = ServiceBudget

NextCacheKey == CallGenerateCacheKey

SpecCacheKey == InitCacheKey /\ [][NextCacheKey]_vars

InitCache ==
  /\ rt = RetryIdle
  /\ dec = DecodeIdle
  /\ ck = CacheKeyIdle
  /\ rd = ResultDisplayIdle
  /\ ia = InputAreaIdle
  /\ CachesEmpty
  /\ budget = ServiceBudget

NextTextCache ==
  \/ ClockTick
  \/ \E k \in TextCacheKeys : CallGetCachedTranslation(k)
  \/ \E k \in TextCacheKeys, d \in TextCacheData : CallSetCachedTranslation(k, d)

SpecTextCache == InitCache /\ [][NextTextCache]_vars

NextFifoCache ==
  \/ \E t \in FifoTexts : CallGetCachedReverseTranslation(t, LANG_EN)
  \/ \E t \in FifoTexts, r \in FifoResults : CallSetCachedReverseTranslation(t, LANG_EN, r)
  \/ \E t \in FifoTexts : CallGetCachedTTS(t)
  \/ \E t \in FifoTexts, a \in AudioPayloads : CallSetCachedTTS(t, a)

SpecFifoCache == InitCache /\ [][NextFifoCache]_vars

NextSpeech ==
  \/ \E t \in SpeechTexts : CallGenerateSpeech(t)
  \/ \E i \in 1..MaxPromises : SpeechBackendResolves(i)
  \/ \E i \in 1..MaxPromises, e \in SpeechErrors : SpeechBackendRejects(i, e)
  \/ \E i \in 1..MaxPromises : SpeechTimer(i)
  \/ \E i \in 1..MaxPromises : SpeechCleanup(i)

SpecSpeech == InitCache /\ [][NextSpeech]_vars

\* The runs of the orchestrator that are explored: overlapping calls under a
\* ticking clock, one call with failing backend calls, one call with user edits
RaceBudget ==
  [calls |-> MaxCalls, overlap |-> TRUE, clock |-> MaxRaceClock, failures |-> 0, events |-> 0]
FaultsBudget ==
  [calls |-> 1, overlap |-> TRUE, clock |-> 0, failures |-> MaxFailures, events |-> 0]
EditsBudget ==
  [calls |-> 1, overlap |-> TRUE, clock |-> 0, failures |-> 0, events |-> MaxUserEvents]
Budgets == {RaceBudget, FaultsBudget, EditsBudget}

Init ==
  /\ rt = RetryIdle
  /\ dec = DecodeIdle
  /\ ck = CacheKeyIdle
  /\ rd = ResultDisplayIdle
  /\ ia = InputAreaIdle
  /\ CachesEmpty
  /\ budget \in Budgets

Next ==
  \/ ClockTick
  \/ \E t \in TextInputs : Translate(t, TRUE)
  \/ Translate(BlobInput, FALSE)
  \/ \E c \in 1..MaxCalls : StreamChunk(c)
  \/ \E c \in 1..MaxCalls, e \in FlowErrors : StreamQuotaNotice(c, e)
  \/ \E c \in 1..MaxCalls : StreamEnds(c)
  \/ \E c \in 1..MaxCalls, e \in FlowErrors : StreamThrows(c, e)
  \/ \E c \in 1..MaxCalls : AudioSettles(c)
  \/ \E c \in 1..MaxCalls, m \in MetadataResults : MetaAttemptResolves(c, m)
  \/ \E c \in 1..MaxCalls, e \in PlainErrors : MetaAttemptRejects(c, e)
  \/ \E c \in 1..MaxCalls : MetaTimer(c)
  \/ \E c \in 1..MaxCalls : MetaSettles(c)
  \/ \E c \in 1..MaxCalls : Finalize(c)
  \/ \E c \in 1..MaxCalls, d \in LegacyResults : FallbackResolves(c, d)
  \/ \E c \in 1..MaxCalls, e \in PlainErrors : FallbackRejects(c, e)
  \/ \E c \in 1..MaxCalls : FallbackTimer(c)
  \/ \E i \in 1..MaxPromises : SpeechBackendResolves(i)
  \/ \E i \in 1..MaxPromises, e \in PlainErrors : SpeechBackendFails(i, e)
  \/ \E i \in 1..MaxPromises : SpeechTimer(i)
  \/ \E i \in 1..MaxPromises : SpeechCleanup(i)
  \/ handleSwap
  \/ \E l \in LanguageCodes : SetSourceLang(l)
  \/ \E l \in LanguageCodes : SetTargetLang(l)
  \/ handleClearHistory

Spec == Init /\ [][Next]_vars

\* Calls whose backend calls all succeed, issued one after the other, each after
\* the one before has returned
RepeatBudget ==
  [calls |-> MaxCalls, overlap |-> FALSE, clock |-> MaxRaceClock, failures |-> 0,
   events |-> 0]

InitRepeat ==
  /\ rt = RetryIdle
  /\ dec = DecodeIdle
  /\ ck = CacheKeyIdle
  /\ rd = ResultDisplayIdle
  /\ ia = InputAreaIdle
  /\ CachesEmpty
  /\ budget = RepeatBudget

NextRepeat ==
  \/ ClockTick
  \/ \E t \in TextInputs : Translate(t, TRUE)
  \/ Translate(BlobInput, FALSE)
  \/ \E c \in 1..MaxCalls : StreamChunk(c)
  \/ \E c \in 1..MaxCalls : StreamEnds(c)
  \/ \E c \in 1..MaxCalls : AudioSettles(c)
  \/ \E c \in 1..MaxCalls, m \in MetadataResults : MetaAttemptResolves(c, m)
  \/ \E c \in 1..MaxCalls : MetaSettles(c)
  \/ \E c \in 1..MaxCalls : Finalize(c)
  \/ \E i \in 1..MaxPromises : SpeechBackendResolves(i)
  \/ \E i \in 1..MaxPromises : SpeechCleanup(i)

SpecRepeat == InitRepeat /\ [][NextRepeat]_vars

\* One call whose backend calls all succeed, with swaps, selector changes and clears
InitEdits ==
  /\ rt = RetryIdle
  /\ dec = DecodeIdle
  /\ ck = CacheKeyIdle
  /\ rd = ResultDisplayIdle
  /\ ia = InputAreaIdle
  /\ CachesEmpty
  /\ budget = EditsBudget

NextEdits ==
  \/ \E t \in TextInputs : Translate(t, TRUE)
  \/ Translate(BlobInput, FALSE)
  \/ \E c \in 1..MaxCalls : StreamChunk(c)
  \/ \E c \in 1..MaxCalls : StreamEnds(c)
  \/ \E c \in 1..MaxCalls : AudioSettles(c)
  \/ \E c \in 1..MaxCalls, m \in MetadataResults : MetaAttemptResolves(c, m)
  \/ \E c \in 1..MaxCalls : MetaSettles(c)
  \/ \E c \in 1..MaxCalls : Finalize(c)
  \/ \E i \in 1..MaxPromises : SpeechBackendResolves(i)
  \/ \E i \in 1..MaxPromises : SpeechCleanup(i)
  \/ handleSwap
  \/ \E l \in LanguageCodes : SetSourceLang(l)
  \/ \E l \in LanguageCodes : SetTargetLang(l)
  \/ handleClearHistory

SpecEdits == InitEdits /\ [][NextEdits]_vars

\* ResultDisplay mounted with a record, and the user selecting text
InitSelection ==
  /\ rt = RetryIdle
  /\ dec = DecodeIdle
  /\ ck = CacheKeyIdle
  /\ rd \in {[pc |-> "mounted", result |-> r, selection |-> Null, selectionState |-> Null,
               timers |-> 0] : r \in DisplayedRecords}
  /\ ia = InputAreaIdle
  /\ CachesEmpty
  /\ budget = ServiceBudget

NextSelection ==
  \/ \E s \in WindowSelections : SelectionChanges(s)
  \/ handleSelectionChange
  \/ SelectionTimerFires
  \/ ClosePopup

SpecSelection == InitSelection /\ [][NextSelection]_vars

(***************************************************************************)
(* Claims about retryOperation (SpecRetry)                                 *)
(***************************************************************************)
RetryFailures == {i \in 1..Len(rt.outcomes) : ~rt.outcomes[i].ok}
RetryFinished == rt.pc \in {"returned", "thrown"}
OnlyPlainFailures == \A i \in RetryFailures : rt.outcomes[i].error.markers = {}

\* C7: with the default policy (2 retries, base delay d) an operation that fails
\* twice with non-quota errors and then succeeds is invoked exactly 3 times, the
\* result is the third invocation's value, and the waits are d and then 2*d.
C7_FailTwiceThenSucceed ==
  (rt.retries0 = DEFAULT_RETRIES /\ OnlyPlainFailures) =>
    ( /\ \* a first or second failure does not end the run
         ( (Len(rt.outcomes) \in 1..2 /\ RetryFailures = 1..Len(rt.outcomes)) =>
             ( /\ ~RetryFinished
               /\ rt.waits = SubSeq(<<rt.delay0, 2 * rt.delay0>>, 1, Len(rt.outcomes)) ) )
      /\ \* the third invocation succeeds
         ( (Len(rt.outcomes) = 3 /\ RetryFailures = {1, 2}) =>
             ( /\ rt.pc = "returned"
               /\ rt.calls = 3
               /\ rt.result = [value |-> rt.outcomes[3].value]
               /\ rt.waits = <<rt.delay0, 2 * rt.delay0>> ) ) )

C7_Witness ==
  /\ rt.retries0 = DEFAULT_RETRIES /\ rt.delay0 = DEFAULT_DELAY
  /\ Len(rt.outcomes) = 3 /\ RetryFailures = {1, 2}
  /\ OnlyPlainFailures
  /\ rt.pc = "returned" /\ rt.calls = 3

\* C8: when the retries are exhausted, retryOperation fails with the distinguished
\* quota error if the last failure carries a quota marker, and otherwise re-throws
\* the last raw error unchanged.
C8_ExhaustedRetries ==
  LET n == Len(rt.outcomes)
      exhausted == n = rt.retries0 + 1 /\ ~rt.outcomes[n].ok
  IN  /\ (rt.pc = "thrown") =>
           ( /\ exhausted
             /\ rt.result = IF rt.outcomes[n].error.markers # {}
                            THEN [error |-> QuotaExceededError]
                            ELSE [error |-> rt.outcomes[n].error] )
      /\ exhausted => (rt.pc = "thrown")

C8_Witness ==
  /\ rt.pc = "thrown"
  /\ rt.retries0 = DEFAULT_RETRIES
  /\ rt.outcomes[Len(rt.outcomes)].error.markers = {"resource exhausted"}
  /\ rt.result = [error |-> QuotaExceededError]

(***************************************************************************)
(* Claims about the cache stores (SpecTextCache, SpecFifoCache)            *)
(***************************************************************************)
EvictedKeys(before, after) == MapKeySet(before) \ MapKeySet(after)

HasSmallestTimestamp(cache, k) ==
  \A j \in 1..Len(cache) : MapGet(cache, k).timestamp <= cache[j].timestamp

\* C4: whenever setCachedTranslation evicts from the text-translation store, the
\* evicted entry has the smallest last-access timestamp, where set and a get hit
\* refresh the timestamp; so an entry read after all others were last touched
\* survives the next insertion and the oldest untouched entry is the one removed.
C4_EvictsLeastRecentlyUsed ==
  [][ \A k \in EvictedKeys(translationCache, translationCache') :
        /\ HasSmallestTimestamp(translationCache, k)
        /\ k = Head(touchOrder)
        /\ (Len(translationCache) > 1) => (k # touchOrder[Len(touchOrder)]) ]_vars

\* the part of C4 that the code keeps: the evicted entry has a smallest timestamp
C4_EvictsSmallestTimestamp ==
  [][ \A k \in EvictedKeys(translationCache, translationCache') :
        HasSmallestTimestamp(translationCache, k) ]_vars

FifoKept(before, after) ==
  /\ \A k \in EvictedKeys(before, after) : k = before[1].key
  /\ (MapKeySet(after) \subseteq MapKeySet(before)) => (MapKeys(after) = MapKeys(before))

\* C5: in the reverse-translation cache and the speech-audio cache an eviction
\* always removes the earliest-inserted key still present, and a get or a re-set
\* of an existing key never changes the eviction order.
C5_FifoUnaffectedByResets ==
  [][ /\ FifoKept(reverseTranslationCache, reverseTranslationCache')
      /\ FifoKept(ttsCache, ttsCache') ]_vars

\* the part of C5 that the code keeps: what is evicted is the first key of the map
C5_EvictsFirstKey ==
  [][ /\ \A k \in EvictedKeys(reverseTranslationCache, reverseTranslationCache') :
           k = reverseTranslationCache[1].key
      /\ \A k \in EvictedKeys(ttsCache, ttsCache') : k = ttsCache[1].key ]_vars

(***************************************************************************)
(* Claims about generateSpeech (SpecSpeech)                                *)
(***************************************************************************)
PendingFor(proms, k) == {i \in 1..Len(proms) : proms[i].key = k /\ PromisePending(proms[i])}

SpeechKeys == {Trim(t) : t \in SpeechTexts}

\* C6: for every text at most one speech-synthesis retry chain is outstanding for
\* the trimmed text, and a generateSpeech call made while one is pending for the
\* same trimmed text returns that pending operation and starts no backend call.
C6_OneSynthesisPerText ==
  [][ /\ \A k \in SpeechKeys : Cardinality(PendingFor(promises', k)) <= 1
      /\ (speakers'.count = speakers.count + 1) =>
           LET pending == PendingFor(promises, Trim(speakers'.text))
           IN  (speakers'.text # <<>> /\ pending # {}) =>
                 ( /\ speakers'.ret.kind = "promise"
                   /\ speakers'.ret.id \in pending
                   /\ promises' = promises ) ]_vars

\* a second caller has joined a synthesis that is in its retries
C6_Witness ==
  /\ speakers.joined
  /\ PromisePending(promises[speakers.ret.id])
  /\ promises[speakers.ret.id].retries < DEFAULT_RETRIES
  /\ promises[speakers.ret.id].key # speakers.text

(***************************************************************************)
(* Claims about decodeAudioData (SpecDecode)                               *)
(***************************************************************************)
DecodedBytes == Atob(StripWhitespace(dec.input))

IsMonoBuffer(b) ==
  /\ b # Null
  /\ b.numberOfChannels = 1
  /\ b.sampleRate = SAMPLE_RATE

Superseded(a) == a < Len(calls)

\* this step is a continuation of call a
ContinuationOf(a) == Len(calls') = Len(calls) /\ calls'[a] # calls[a]

\* C1: once a later translate call has been issued, no continuation of an
\* earlier call (stream fragment, audio result, metadata result, finalization,
\* fallback) changes the visible record or the history
C1_SupersededCallIsSilent ==
  [][\A a \in 1..Len(calls) :
       (Superseded(a) /\ ContinuationOf(a))
         => (currentResult' = currentResult /\ history' = history)]_vars

\* the identifiers of the calls so far are pairwise different
DistinctRequestIds ==
  \A a, b \in 1..Len(calls) : a # b => calls[a].requestId # calls[b].requestId

\* C1, for the runs in which no two calls got the same identifier
C1_SilentWhenIdsDiffer ==
  [][\A a \in 1..Len(calls) :
       (Superseded(a) /\ ContinuationOf(a) /\ DistinctRequestIds)
         => (currentResult' = currentResult /\ history' = history)]_vars

RECURSIVE FragmentsUpTo(_)
FragmentsUpTo(n) == IF n = 0 THEN <<>> ELSE FragmentsUpTo(n - 1) \o Fragment(n)

\* C2: while the latest call is streaming, the visible record's translatedText
\* is the concatenation, in order, of the fragments yielded so far, and the
\* status is still translating_text
C2_FragmentsInOrder ==
  \A c \in 1..Len(calls) :
    (c = Len(calls) /\ calls[c].pc = "streaming" /\ ~calls[c].streamClosing)
      => ( /\ calls[c].finalText = FragmentsUpTo(calls[c].chunks)
           /\ currentResult # Null
           /\ currentResult.translatedText = calls[c].finalText
           /\ loadingState.status = STATUS_TRANSLATING )

\* C2, for the runs without a swap and without two calls of the same identifier
C2_InOrderWhenUndisturbed ==
  (DistinctRequestIds /\ userEvents = 0) => C2_FragmentsInOrder

\* the step is a translate call for text whose cache entry holds text and audio
FullHitStep ==
  /\ Len(calls') = Len(calls) + 1
  /\ LET call == calls'[Len(calls')]
     IN  /\ call.isText
         /\ MapHas(translationCache, call.cacheKey)
         /\ MapGet(translationCache, call.cacheKey).data.slang # <<>>
         /\ AudioTruthy(CachedAudio(MapGet(translationCache, call.cacheKey).data))

\* C3: a translate call for text whose cache entry holds translation text and
\* audio returns at once with no backend call: the visible record is the one
\* built from the cache entry, exactly that record is prepended to history and
\* the status is success
C3_FullCacheHitIsLocal ==
  [][FullHitStep =>
       LET call == calls'[Len(calls')]
           cached == MapGet(translationCache, call.cacheKey).data
       IN  /\ call.pc = "done"
           /\ call.backend = 0
           /\ promises' = promises
           /\ inflightTTS' = inflightTTS
           /\ \A c \in 1..Len(calls) : calls'[c] = calls[c]
           /\ currentResult'.id = call.requestId
           /\ currentResult'.originalText = call.originalText
           /\ currentResult'.translatedText = cached.slang
           /\ currentResult'.tags = cached.tags
           /\ currentResult'.imagePrompt = cached.visual_description
           /\ currentResult'.audioData = cached.audioData
           /\ currentResult'.sourceLang = sourceLang
           /\ currentResult'.targetLang = targetLang
           /\ Head(history') = currentResult'
           /\ Len(history') = Min(Len(history) + 1, HISTORY_LIMIT)
           /\ \A i \in 2..Len(history') : history'[i] = history[i - 1]
           /\ call.commits = 1
           /\ loadingState'.status = STATUS_SUCCESS]_vars

\* a second call has been answered from the cache alone
C3_Witness ==
  /\ Len(calls) = 2
  /\ calls[2].isText /\ calls[2].pc = "done"
  /\ calls[2].backend = 0 /\ calls[2].commits = 1
  /\ loadingState.status = STATUS_SUCCESS
  /\ currentResult # Null /\ AudioTruthy(currentResult.audioData)
  /\ currentResult.translatedText # <<>>
  /\ history # <<>> /\ Head(history) = currentResult

\* the step is a swap of a visible finished record
SwapStep ==
  /\ userEvents' # userEvents
  /\ currentResult # Null
  /\ currentResult' # currentResult
  /\ loadingState.status = STATUS_SUCCESS

\* what a swap does besides the languages of the inverted record
SwapInverts ==
  /\ currentResult'.id = currentResult.id
  /\ currentResult'.originalText = currentResult.translatedText
  /\ currentResult'.translatedText = currentResult.originalText
  /\ currentResult'.tags = currentResult.tags
  /\ currentResult'.imagePrompt = currentResult.imagePrompt
  /\ currentResult'.audioData = Null
  /\ Head(history') = currentResult'
  /\ Len(history') = Min(Len(history) + 1, HISTORY_LIMIT)
  /\ \A i \in 2..Len(history') : history'[i] = history[i - 1]
  /\ promises' = promises
  /\ inflightTTS' = inflightTTS
  /\ calls' = calls

PrependStep ==
  /\ Len(history') = Min(Len(history) + 1, HISTORY_LIMIT)
  /\ \A i \in 2..Len(history') : history'[i] = history[i - 1]

\* the step is a clear: a user event that is neither a swap nor a selector change
ClearStep ==
  /\ userEvents' # userEvents
  /\ currentResult' = currentResult
  /\ sourceLang' = sourceLang
  /\ targetLang' = targetLang

\* C11: history never holds more than its capacity; every step that changes it
\* either empties it or prepends one record, keeping the older records in
\* order and dropping those beyond the capacity; a clear leaves it empty
C11_HistoryCappedNewestFirst ==
  [][ /\ Len(history') <= HISTORY_LIMIT
      /\ history' # history => (history' = <<>> \/ PrependStep)
      /\ ClearStep => history' = <<>> ]_vars

\* a full history from which the oldest record, the streamed one that carried
\* audio, has been dropped by the swaps that followed it
C11_Witness ==
  /\ Len(history) = HISTORY_LIMIT
  /\ userEvents = MaxUserEvents
  /\ \E c \in 1..Len(calls) : calls[c].commits = 1
  /\ \A i \in 1..Len(history) : history[i].audioData = Null
  /\ Head(history) = currentResult

(***************************************************************************)
(* Claims about generateCacheKey                                           *)
(***************************************************************************)
\* two characters that are the same letter in either case
SameLetter(c, d) == c = d \/ {c, d} = {"a", "A"}

AllWhitespace(s) == \A i \in 1..Len(s) : IsWhitespace(s[i])

\* s and t differ only in leading or trailing white space and in letter case:
\* each is white space, a core, white space, and the cores agree letter by letter
DifferOnlyInMarginAndCase(s, t) ==
  \E i1 \in 0..Len(s), j1 \in 0..Len(s), i2 \in 0..Len(t), j2 \in 0..Len(t) :
    /\ i1 <= j1 /\ i2 <= j2
    /\ AllWhitespace(SubSeq(s, 1, i1)) /\ AllWhitespace(SubSeq(s, j1 + 1, Len(s)))
    /\ AllWhitespace(SubSeq(t, 1, i2)) /\ AllWhitespace(SubSeq(t, j2 + 1, Len(t)))
    /\ j1 - i1 = j2 - i2
    /\ \A k \in 1..(j1 - i1) : SameLetter(s[i1 + k], t[i2 + k])

\* C12: under the same languages, two texts that differ only in leading or
\* trailing white space or in letter case get the same key; inputs whose source
\* or target language differ get different keys
C12_KeyNormalisesText ==
  ck.pc = "done" =>
    /\ ( /\ ck.a.src = ck.b.src
         /\ ck.a.tgt = ck.b.tgt
         /\ DifferOnlyInMarginAndCase(ck.a.text, ck.b.text) ) => ck.ka = ck.kb
    /\ (ck.a.src # ck.b.src \/ ck.a.tgt # ck.b.tgt) => ck.ka # ck.kb

\* the keys of " A " and "a" under the same languages have been computed
C12_Witness ==
  /\ ck.pc = "done"
  /\ ck.a.text = <<" ", "A", " ">> /\ ck.b.text = <<"a">>
  /\ ck.a.src = ck.b.src /\ ck.a.tgt = ck.b.tgt
  /\ ck.ka = ck.kb
  /\ ck.ka = ck.a.src \o <<":">> \o ck.a.tgt \o <<":", "a">>

\* C13: no two records of the history list have the same identifier
C13_UniqueHistoryIds ==
  \A i, j \in 1..Len(history) : i # j => history[i].id # history[j].id

\* C14: no record of the history list has an empty translatedText, and the
\* visible record has a non-empty translatedText whenever the status is
\* loading_assets or success
C14_EmptyTextOnlyWhileStreaming ==
  /\ \A i \in 1..Len(history) : history[i].translatedText # <<>>
  /\ loadingState.status \in {STATUS_LOADING_ASSETS, STATUS_SUCCESS}
       => (currentResult # Null /\ currentResult.translatedText # <<>>)

\* the part of C14 about history alone
C14_NoEmptyTextCommitted ==
  \A i \in 1..Len(history) : history[i].translatedText # <<>>

\* C15: after any sequence of getCachedTranslation and setCachedTranslation
\* calls the text-translation store holds at most MAX_CACHE_SIZE entries
C15_TextStoreBounded == Len(translationCache) <= MAX_CACHE_SIZE

\* the store is at capacity, its entries were written at different times, and
\* the least recently written one is not the first in insertion order
C15_Witness ==
  /\ Len(translationCache) = MAX_CACHE_SIZE
  /\ now = MaxClock
  /\ translationCache[1].timestamp = MaxClock
  /\ translationCache[MAX_CACHE_SIZE].timestamp < MaxClock

\* C16: the reverse-translation store holds at most MAX_REVERSE_CACHE_SIZE
\* entries and the speech-audio store at most MAX_TTS_CACHE_SIZE entries, for
\* every key that can be stored, the key of whitespace-only text included
C16_FifoStoresBounded ==
  /\ Len(reverseTranslationCache) <= MAX_REVERSE_CACHE_SIZE
  /\ Len(ttsCache) <= MAX_TTS_CACHE_SIZE

\* the part of C16 about the reverse-translation store alone
C16_ReverseStoreBounded == Len(reverseTranslationCache) <= MAX_REVERSE_CACHE_SIZE

\* the backend stream of call c fails in this step with an error that is recorded
StreamFails(c) ==
  /\ calls[c].pc = "streaming"
  /\ calls[c].streamError = Null
  /\ calls'[c].streamError # Null

\* translateTextStream yields its notice after the fragments already yielded,
\* and the consumer is about to see the end of the stream
YieldsNoticeAndEnds(c) ==
  /\ calls'[c].pc = "streaming"
  /\ calls'[c].streamClosing
  /\ calls'[c].chunks = calls[c].chunks + 1
  /\ calls'[c].finalText = calls[c].finalText \o QUOTA_NOTICE

\* translateTextStream throws: the consumer is in its catch block
ThrowsToConsumer(c) ==
  /\ calls'[c].pc \in {"fallback", "done"}
  /\ calls'[c].finalText = calls[c].finalText

\* C17: when the backend stream fails with an error whose text contains 429,
\* quota or resource exhausted, translateTextStream does not throw but yields
\* one notice fragment after the fragments already yielded and ends; any other
\* failure of the stream is thrown to the consumer
C17_StreamQuotaYieldsNotice ==
  [][\A c \in 1..Len(calls) :
       /\ StreamFails(c) =>
            IF IsQuotaError(calls'[c].streamError)
            THEN YieldsNoticeAndEnds(c)
            ELSE ThrowsToConsumer(c)
       /\ (calls[c].pc = "streaming" /\ calls[c].streamClosing /\ calls'[c] # calls[c])
            => calls'[c].pc # "streaming"]_vars

\* C17 with the quota test that translateTextStream makes
C17_NoticeOnTestedMarkers ==
  [][\A c \in 1..Len(calls) :
       /\ StreamFails(c) =>
            IF IsStreamQuotaError(calls'[c].streamError)
            THEN YieldsNoticeAndEnds(c)
            ELSE ThrowsToConsumer(c)
       /\ (calls[c].pc = "streaming" /\ calls[c].streamClosing /\ calls'[c] # calls[c])
            => calls'[c].pc # "streaming"]_vars

(***************************************************************************)
(* Claims about the orchestrator under completing backend calls (SpecLive) *)
(***************************************************************************)
\* a backend call, a timer or a pending continuation completes
Completion ==
  \/ \E c \in 1..MaxCalls : StreamChunk(c)
  \/ \E c \in 1..MaxCalls, e \in FlowErrors : StreamQuotaNotice(c, e)
  \/ \E c \in 1..MaxCalls : StreamEnds(c)
  \/ \E c \in 1..MaxCalls, e \in FlowErrors : StreamThrows(c, e)
  \/ \E c \in 1..MaxCalls : AudioSettles(c)
  \/ \E c \in 1..MaxCalls, m \in MetadataResults : MetaAttemptResolves(c, m)
  \/ \E c \in 1..MaxCalls, e \in PlainErrors : MetaAttemptRejects(c, e)
  \/ \E c \in 1..MaxCalls : MetaTimer(c)
  \/ \E c \in 1..MaxCalls : MetaSettles(c)
  \/ \E c \in 1..MaxCalls : Finalize(c)
  \/ \E c \in 1..MaxCalls, d \in LegacyResults : FallbackResolves(c, d)
  \/ \E c \in 1..MaxCalls, e \in PlainErrors : FallbackRejects(c, e)
  \/ \E c \in 1..MaxCalls : FallbackTimer(c)
  \/ \E i \in 1..MaxPromises : SpeechBackendResolves(i)
  \/ \E i \in 1..MaxPromises, e \in PlainErrors : SpeechBackendFails(i, e)
  \/ \E i \in 1..MaxPromises : SpeechTimer(i)
  \/ \E i \in 1..MaxPromises : SpeechCleanup(i)

\* one call, with failing backend calls
InitFaults ==
  /\ rt = RetryIdle
  /\ dec = DecodeIdle
  /\ ck = CacheKeyIdle
  /\ rd = ResultDisplayIdle
  /\ ia = InputAreaIdle
  /\ CachesEmpty
  /\ budget = FaultsBudget

NextFaults ==
  \/ \E t \in TextInputs : Translate(t, TRUE)
  \/ Translate(BlobInput, FALSE)
  \/ \E c \in 1..MaxCalls : StreamChunk(c)
  \/ \E c \in 1..MaxCalls, e \in FlowErrors : StreamQuotaNotice(c, e)
  \/ \E c \in 1..MaxCalls : StreamEnds(c)
  \/ \E c \in 1..MaxCalls, e \in FlowErrors : StreamThrows(c, e)
  \/ \E c \in 1..MaxCalls : AudioSettles(c)
  \/ \E c \in 1..MaxCalls, m \in MetadataResults : MetaAttemptResolves(c, m)
  \/ \E c \in 1..MaxCalls, e \in PlainErrors : MetaAttemptRejects(c, e)
  \/ \E c \in 1..MaxCalls : MetaTimer(c)
  \/ \E c \in 1..MaxCalls : MetaSettles(c)
  \/ \E c \in 1..MaxCalls : Finalize(c)
  \/ \E c \in 1..MaxCalls, d \in LegacyResults : FallbackResolves(c, d)
  \/ \E c \in 1..MaxCalls, e \in PlainErrors : FallbackRejects(c, e)
  \/ \E c \in 1..MaxCalls : FallbackTimer(c)
  \/ \E i \in 1..MaxPromises : SpeechBackendResolves(i)
  \/ \E i \in 1..MaxPromises, e \in PlainErrors : SpeechBackendFails(i, e)
  \/ \E i \in 1..MaxPromises : SpeechTimer(i)
  \/ \E i \in 1..MaxPromises : SpeechCleanup(i)

\* the same, when every backend call and timer eventually completes
SpecLive == InitFaults /\ [][NextFaults]_vars /\ WF_vars(Completion)

Running(c) == c <= Len(calls) /\ calls[c].pc # "done" /\ IsActive(calls[c])
NoLongerActive(c) == c <= Len(calls) /\ ~IsActive(calls[c])
Settled(c) ==
  /\ c <= Len(calls)
  /\ calls[c].pc = "done"
  /\ loadingState.status \in {STATUS_SUCCESS, STATUS_ERROR}

\* C18: when every backend call and timer eventually completes, a translate
\* call that is never superseded eventually has returned with the status
\* success or error, whichever of its backend calls fail
C18_CallSettles ==
  \A c \in 1..MaxCalls : Running(c) ~> (NoLongerActive(c) \/ Settled(c))

\* the call has returned with a status after as many failed backend attempts as
\* the run allows
C18_Witness ==
  /\ Settled(1)
  /\ FailedAttempts = MaxFailures

\* the same after a stream that threw and a fallback that failed
C18_WitnessError ==
  /\ Settled(1)
  /\ calls[1].failures = 1 + DEFAULT_RETRIES + 1
  /\ loadingState = LoadingState(STATUS_ERROR, "Translation failed.")

(***************************************************************************)
(* Claims about the catch block of handleTranslate (SpecSequel, Spec)      *)
(***************************************************************************)
MaxSequelFailures == 1

\* calls issued one after the other, each after the one before has returned,
\* with a failing backend call
SequelBudget ==
  [calls |-> MaxCalls, overlap |-> FALSE, clock |-> MaxRaceClock,
   failures |-> MaxSequelFailures, events |-> 0]

InitSequel ==
  /\ rt = RetryIdle
  /\ dec = DecodeIdle
  /\ ck = CacheKeyIdle
  /\ rd = ResultDisplayIdle
  /\ ia = InputAreaIdle
  /\ CachesEmpty
  /\ budget = SequelBudget

NextSequel ==
  \/ ClockTick
  \/ \E t \in TextInputs : Translate(t, TRUE)
  \/ Translate(BlobInput, FALSE)
  \/ \E c \in 1..MaxCalls : StreamChunk(c)
  \/ \E c \in 1..MaxCalls, e \in FlowErrors : StreamQuotaNotice(c, e)
  \/ \E c \in 1..MaxCalls : StreamEnds(c)
  \/ \E c \in 1..MaxCalls, e \in FlowErrors : StreamThrows(c, e)
  \/ \E c \in 1..MaxCalls : AudioSettles(c)
  \/ \E c \in 1..MaxCalls, m \in MetadataResults : MetaAttemptResolves(c, m)
  \/ \E c \in 1..MaxCalls, e \in PlainErrors : MetaAttemptRejects(c, e)
  \/ \E c \in 1..MaxCalls : MetaTimer(c)
  \/ \E c \in 1..MaxCalls : MetaSettles(c)
  \/ \E c \in 1..MaxCalls : Finalize(c)
  \/ \E c \in 1..MaxCalls, d \in LegacyResults : FallbackResolves(c, d)
  \/ \E i \in 1..MaxPromises : SpeechBackendResolves(i)
  \/ \E i \in 1..MaxPromises, e \in PlainErrors : SpeechBackendFails(i, e)
  \/ \E i \in 1..MaxPromises : SpeechTimer(i)
  \/ \E i \in 1..MaxPromises : SpeechCleanup(i)

SpecSequel == InitSequel /\ [][NextSequel]_vars

\* translateTextStream throws into the catch block of the active call c
ThrowStep(c) ==
  /\ IsActive(calls[c])
  /\ calls[c].pc = "streaming"
  /\ calls'[c].pc # "streaming"
  /\ calls'[c].failures = calls[c].failures + 1

\* the non-streaming translateText is called for call c
CallsFallback(c) ==
  /\ calls'[c].pc = "fallback"
  /\ calls'[c].backend = calls[c].backend + 1

\* the fallback of the active call c answers, or fails for good
FallbackEndStep(c) ==
  /\ IsActive(calls[c])
  /\ calls[c].pc = "fallback"
  /\ calls'[c].pc = "done"

FallbackOutcome(c) ==
  IF calls'[c].failures = calls[c].failures
  THEN /\ loadingState' = LoadingState(STATUS_SUCCESS, "")
       /\ \E d \in LegacyResults : currentResult'.translatedText = d.slang
       /\ currentResult'.id = calls[c].requestId
       /\ history' = handleNewTranslation(history, currentResult')
  ELSE /\ loadingState'.status = STATUS_ERROR
       /\ UNCHANGED <<currentResult, history>>

\* C19: if the stream throws before any fragment of the current request, the
\* orchestrator calls the non-streaming translation; when that answers, its
\* record is shown and committed with status success, and when it fails the
\* status becomes error; also when an earlier request left a result on screen
C19_ThrowBeforeFragmentFallsBack ==
  [][\A c \in 1..Len(calls) :
       /\ (ThrowStep(c) /\ calls[c].chunks = 0) => CallsFallback(c)
       /\ FallbackEndStep(c) => FallbackOutcome(c)]_vars

\* C19 for a call made while no translated text is on screen
C19_FallsBackOnEmptyScreen ==
  [][\A c \in 1..Len(calls) :
       /\ (ThrowStep(c) /\ calls[c].chunks = 0 /\ ~calls[c].closureHasText)
            => CallsFallback(c)
       /\ FallbackEndStep(c) => FallbackOutcome(c)]_vars

\* the stream of the active call c throws after it produced a non-empty text
ThrowAfterText(c) == ThrowStep(c) /\ calls[c].finalText # <<>>

\* the failure is reported as incomplete assets, no fallback call is made, and
\* the partial text of this call stays in the visible record
ReportedIncomplete(c) ==
  /\ calls'[c].pc = "done"
  /\ calls'[c].backend = calls[c].backend
  /\ loadingState' = LoadingState(STATUS_ERROR, "Asset generation incomplete.")
  /\ currentResult' # Null
  /\ currentResult'.translatedText = calls[c].finalText

\* C20: if the stream of the current request fails after it produced a
\* non-empty translated text, the failure is reported as "asset generation
\* incomplete", no fallback translation call is made and the partial text stays
\* in the visible record; for the first request of a session as for later ones
C20_ThrowAfterTextKeepsPartial ==
  [][\A c \in 1..Len(calls) : ThrowAfterText(c) => ReportedIncomplete(c)]_vars

\* C20 for a call made while a translated text was on screen
C20_KeepsPartialAfterEarlierResult ==
  [][\A c \in 1..Len(calls) :
       (ThrowAfterText(c) /\ calls[c].closureHasText) => ReportedIncomplete(c)]_vars

\* what the first request of a session does instead: it calls the fallback
C20_FirstRequestFallsBack ==
  [][\A c \in 1..Len(calls) :
       (ThrowAfterText(c) /\ ~calls[c].closureHasText) => CallsFallback(c)]_vars

(***************************************************************************)
(* Claims about ResultDisplay (SpecSelection)                              *)
(***************************************************************************)
\* a timer of handleSelectionChange fires in this step
SelectionTimerStep == rd.pc = "mounted" /\ rd'.timers = rd.timers - 1

\* a selection that is non-collapsed, non-empty after trimming and anchored inside
Selectable(s) == s # Null /\ ~s.isCollapsed /\ Trim(s.text) # <<>> /\ s.anchorInside

\* a missing, collapsed or blank selection
NothingSelected(s) == s = Null \/ s.isCollapsed \/ Trim(s.text) = <<>>

PopupCarriesSelection ==
  /\ PopupProps(rd') # Null
  /\ PopupProps(rd').text = Trim(rd.selection.text)
  /\ PopupProps(rd').targetLangCode = rd.result.sourceLang

\* C21: after a selection event the popup is shown exactly when the selection
\* is non-collapsed, non-empty after trimming and anchored inside the text
\* container, and then it carries the selected text and the record's source
\* language; a collapsed or empty selection leaves no popup
C21_PopupExactlyOnSelectionInside ==
  [][SelectionTimerStep =>
       /\ PopupProps(rd') # Null <=> Selectable(rd.selection)
       /\ Selectable(rd.selection) => PopupCarriesSelection
       /\ NothingSelected(rd.selection) => PopupProps(rd') = Null]_vars

\* C21 without the selections anchored outside the container, which leave the
\* popup as it was
C21_PopupOnSelectionInside ==
  [][SelectionTimerStep =>
       /\ Selectable(rd.selection) => PopupCarriesSelection
       /\ NothingSelected(rd.selection) => PopupProps(rd') = Null
       /\ (~Selectable(rd.selection) /\ ~NothingSelected(rd.selection))
            => rd'.selectionState = rd.selectionState]_vars

(***************************************************************************)
(* Claims about superseded calls whose translation fails (SpecOvertake)    *)
(***************************************************************************)
\* overlapping calls whose streams and fallback calls may fail
OvertakeBudget ==
  [calls |-> MaxCalls, overlap |-> TRUE, clock |-> MaxRaceClock, failures |-> MaxFailures,
   events |-> 0]

InitOvertake ==
  /\ rt = RetryIdle
  /\ dec = DecodeIdle
  /\ ck = CacheKeyIdle
  /\ rd = ResultDisplayIdle
  /\ ia = InputAreaIdle
  /\ CachesEmpty
  /\ budget = OvertakeBudget

NextOvertake ==
  \/ ClockTick
  \/ \E t \in TextInputs : Translate(t, TRUE)
  \/ Translate(BlobInput, FALSE)
  \/ \E c \in 1..MaxCalls : StreamChunk(c)
  \/ \E c \in 1..MaxCalls : StreamEnds(c)
  \/ \E c \in 1..MaxCalls, e \in FlowErrors : StreamThrows(c, e)
  \/ \E c \in 1..MaxCalls : AudioSettles(c)
  \/ \E c \in 1..MaxCalls, m \in MetadataResults : MetaAttemptResolves(c, m)
  \/ \E c \in 1..MaxCalls : MetaSettles(c)
  \/ \E c \in 1..MaxCalls : Finalize(c)
  \/ \E c \in 1..MaxCalls, d \in LegacyResults : FallbackResolves(c, d)
  \/ \E c \in 1..MaxCalls, e \in PlainErrors : FallbackRejects(c, e)
  \/ \E c \in 1..MaxCalls : FallbackTimer(c)
  \/ \E i \in 1..MaxPromises : SpeechBackendResolves(i)
  \/ \E i \in 1..MaxPromises : SpeechCleanup(i)

SpecOvertake == InitOvertake /\ [][NextOvertake]_vars

\* call a is not the active request
Stale(a) == ~IsActive(calls[a])

\* C22: a continuation of a request that is no longer the active request never
\* changes the loading status, whether its stream, its asset tasks or its
\* fallback call succeed or fail
C22_StaleCallKeepsStatus ==
  [][\A a \in 1..Len(calls) :
       (Stale(a) /\ ContinuationOf(a)) => loadingState' = loadingState]_vars

\* the fallback call of call a fails for good in this step
FallbackGivesUp(a) ==
  /\ calls[a].pc = "fallback"
  /\ calls'[a].pc = "done"
  /\ calls'[a].failures = calls[a].failures + 1

\* C22 for every continuation but the failure of the fallback call
C22_StaleKeepsStatusButFailedFallback ==
  [][\A a \in 1..Len(calls) :
       (Stale(a) /\ ContinuationOf(a) /\ ~FallbackGivesUp(a))
         => loadingState' = loadingState]_vars

(***************************************************************************)
(* Claims about the request orchestrator, continued                        *)
(***************************************************************************)
\* the calls whose audio task waits for synthesis promise i
WaitingFor(i) ==
  {c \in 1..Len(calls) : /\ calls[c].pc = "assets"
                         /\ calls[c].audio.st = "promise"
                         /\ calls[c].audio.promise = i}

\* the synthesis call of promise i returns with audio in this step
SynthesisReturns(i) ==
  /\ i <= Len(promises)
  /\ promises[i].state = "calling"
  /\ promises'[i].state = "resolved"

\* C23: after a request has been superseded none of its continuations writes
\* to a cache store: neither the text-translation cache at finalization nor the
\* speech-audio cache when its synthesis call returns
C23_StaleCallWritesNoCache ==
  [][/\ \A a \in 1..Len(calls) :
          (Stale(a) /\ ContinuationOf(a)) => translationCache' = translationCache
     /\ \A i \in 1..MaxPromises :
          (SynthesisReturns(i) /\ WaitingFor(i) # {} /\ \A c \in WaitingFor(i) : Stale(c))
            => ttsCache' = ttsCache]_vars

\* the part of C23 about the text-translation cache
C23_StaleCallWritesNoTextCache ==
  [][\A a \in 1..Len(calls) :
       (Stale(a) /\ ContinuationOf(a)) => translationCache' = translationCache]_vars

(***************************************************************************)
(* Claims about the asset tasks (SpecAssets)                               *)
(***************************************************************************)
\* calls one after the other, within one millisecond or one millisecond apart
AssetsBudget ==
  [calls |-> MaxCalls, overlap |-> FALSE, clock |-> 1, failures |-> 0, events |-> 0]

\* one call with failing backend calls, or calls one after the other
InitAssets ==
  /\ rt = RetryIdle
  /\ dec = DecodeIdle
  /\ ck = CacheKeyIdle
  /\ rd = ResultDisplayIdle
  /\ ia = InputAreaIdle
  /\ CachesEmpty
  /\ budget \in {FaultsBudget, AssetsBudget}

NextAssets ==
  \/ ClockTick
  \/ NextFaults

SpecAssets == InitAssets /\ [][NextAssets]_vars

\* what the audio task of call c produced: the payload, or Null after a failure
AudioProduced(c) ==
  LET a == calls[c].audio
  IN  IF a.promise = 0 THEN a.value
      ELSE IF promises[a.promise].state = "resolved"
      THEN promises[a.promise].outcome.value
      ELSE Null

BothTasksSettled(c) == calls[c].audio.st = "settled" /\ calls[c].meta.st = "settled"

\* call c, on the streaming or partial-cache path, commits in this step
AssetsCommitStep(c) ==
  /\ calls[c].pc = "assets"
  /\ calls'[c].commits = calls[c].commits + 1

\* the committed record and the cached tuple carry what the tasks produced
CarriesTaskResults(c) ==
  LET m == calls[c].meta.value
      committed == Head(history')
  IN  /\ history' = handleNewTranslation(history, committed)
      /\ committed.id = calls[c].requestId
      /\ committed.translatedText = calls[c].finalText
      /\ committed.audioData = AudioProduced(c)
      /\ m # Null => (committed.tags = m.tags /\ committed.imagePrompt = m.visual_description)
      /\ calls[c].cacheKey # <<>> =>
           LET d == getCachedTranslation(translationCache', calls[c].cacheKey)
           IN  /\ d # Null
               /\ d.slang = calls[c].finalText
               /\ d.audioData = AudioProduced(c)
               /\ m # Null => (d.tags = m.tags /\ d.visual_description = m.visual_description)

\* C24: on the streaming or partial-cache path the history commit and the
\* text-cache write-back of a request happen only after both its audio task and
\* its metadata task have settled, and the committed record and the cached tuple
\* carry the audio and the tags and description of every task that succeeded
C24_CommitAfterBothTasks ==
  [][\A c \in 1..Len(calls) :
       /\ (calls[c].pc = "assets" /\ ~BothTasksSettled(c))
            => (history' = history /\ translationCache' = translationCache)
       /\ AssetsCommitStep(c) => (BothTasksSettled(c) /\ CarriesTaskResults(c))]_vars

\* a call has committed a record with synthesized audio and tags, after a failed attempt
C24_Witness ==
  /\ \E c \in 1..Len(calls) : calls[c].commits = 1 /\ calls[c].failures > 0
  /\ history # <<>>
  /\ AudioTruthy(Head(history).audioData)
  /\ Head(history).tags # <<>>
  /\ loadingState.status = STATUS_SUCCESS

\* the audio task has settled and the metadata task has not, and the reverse
C24_AudioSettledFirst ==
  \E c \in 1..Len(calls) :
    calls[c].pc = "assets" /\ calls[c].audio.st = "settled" /\ calls[c].meta.st # "settled"
C24_MetadataSettledFirst ==
  \E c \in 1..Len(calls) :
    calls[c].pc = "assets" /\ calls[c].meta.st = "settled" /\ calls[c].audio.st # "settled"

\* the audio task of call c has settled after a failed synthesis
AudioFailed(c) ==
  /\ calls[c].audio.st = "settled"
  /\ calls[c].audio.promise # 0
  /\ promises[calls[c].audio.promise].state = "rejected"

\* the metadata task of call c has settled after a failed enrichment
MetaFailed(c) == calls[c].meta.st = "settled" /\ calls[c].meta.value = Null

\* C25: a failure of the audio task or of the metadata task is not fatal: the
\* request does not get status error, and it ends with status success and a
\* record committed to history, without audio when synthesis failed and with
\* empty tags and description when enrichment failed
C25_AssetFailureIsNotFatal ==
  [][\A c \in 1..Len(calls) :
       (calls[c].pc = "assets" /\ IsActive(calls[c]) /\ ContinuationOf(c)) =>
         /\ loadingState'.status # STATUS_ERROR
         /\ calls'[c].pc = "done" =>
              /\ loadingState' = LoadingState(STATUS_SUCCESS, "")
              /\ calls'[c].commits = calls[c].commits + 1
              /\ history' = handleNewTranslation(history, Head(history'))
              /\ Head(history').id = calls[c].requestId
              /\ AudioFailed(c) => Head(history').audioData = Null
              /\ MetaFailed(c) => /\ Head(history').tags = <<>>
                                  /\ ~TextTruthy(Head(history').imagePrompt)]_vars

\* a call has ended with success after its synthesis failed on every attempt and
\* its enrichment failed once and then answered
C25_Witness ==
  /\ \E c \in 1..Len(calls) : calls[c].commits = 1 /\ calls[c].failures > 0
  /\ \E i \in 1..Len(promises) : promises[i].state = "rejected"
  /\ loadingState.status = STATUS_SUCCESS
  /\ history # <<>>
  /\ Head(history).audioData = Null
  /\ Head(history).tags # <<>>

\* a call has ended with success after its enrichment failed on every attempt
C25_WitnessEnrichmentFailed ==
  /\ \E c \in 1..Len(calls) : calls[c].commits = 1 /\ calls[c].failures = DEFAULT_RETRIES + 1
  /\ loadingState.status = STATUS_SUCCESS
  /\ history # <<>>
  /\ Head(history).tags = <<>>
  /\ ~TextTruthy(Head(history).imagePrompt)
  /\ AudioTruthy(Head(history).audioData)

(***************************************************************************)
(* Claims about the partial-cache path (SpecPartial)                       *)
(***************************************************************************)
MaxAssetFailures == 3   \* failed synthesis attempts in one run

\* calls issued one after the other, whose translation streams and enrichment
\* calls succeed and whose synthesis calls may fail
PartialBudget ==
  [calls |-> MaxCalls, overlap |-> FALSE, clock |-> 0, failures |-> MaxAssetFailures,
   events |-> 0]

InitPartial ==
  /\ rt = RetryIdle
  /\ dec = DecodeIdle
  /\ ck = CacheKeyIdle
  /\ rd = ResultDisplayIdle
  /\ ia = InputAreaIdle
  /\ CachesEmpty
  /\ budget = PartialBudget

NextPartial ==
  \/ \E t \in TextInputs : Translate(t, TRUE)
  \/ Translate(BlobInput, FALSE)
  \/ \E c \in 1..MaxCalls : StreamChunk(c)
  \/ \E c \in 1..MaxCalls : StreamEnds(c)
  \/ \E c \in 1..MaxCalls : AudioSettles(c)
  \/ \E c \in 1..MaxCalls, m \in MetadataResults : MetaAttemptResolves(c, m)
  \/ \E c \in 1..MaxCalls : MetaSettles(c)
  \/ \E c \in 1..MaxCalls : Finalize(c)
  \/ \E i \in 1..MaxPromises : SpeechBackendResolves(i)
  \/ \E i \in 1..MaxPromises, e \in PlainErrors : SpeechBackendFails(i, e)
  \/ \E i \in 1..MaxPromises : SpeechTimer(i)
  \/ \E i \in 1..MaxPromises : SpeechCleanup(i)

SpecPartial == InitPartial /\ [][NextPartial]_vars

\* call c was answered from a cache entry that holds text but no audio
PartialCacheHit(c) == calls[c].cachedData # Null /\ ~FullCacheHit(calls[c].cachedData)

\* the backend operations call c has requested for itself: the synthesis it started
SynthesisStartedBy(c) ==
  IF calls[c].audio.st = "promise" /\ promises[calls[c].audio.promise].state = "calling"
  THEN 1 ELSE 0

\* C26: when the cache holds the text for the key but no audio, translate makes
\* no translation backend call and uses the cached text as the final text; when
\* cached tags and a visual description exist it makes no enrichment call
\* either, so that speech synthesis is the only backend operation requested
C26_PartialHitSkipsTranslation ==
  \A c \in 1..Len(calls) :
    (calls[c].pc = "assets" /\ PartialCacheHit(c)) =>
      /\ calls[c].finalText = calls[c].cachedData.slang
      /\ calls[c].chunks = 0
      /\ calls[c].fallback = NoRetry
      /\ (calls[c].cachedData.tags # <<>> /\ TextTruthy(calls[c].cachedData.visual_description))
           => /\ calls[c].meta.retries = 0
              /\ calls[c].meta.value # Null
              /\ calls[c].meta.value.tags = calls[c].cachedData.tags
              /\ calls[c].backend <= 1

\* a second call is answered from text cached without audio, with tags and a
\* description, and has requested a synthesis and nothing else
C26_Witness ==
  /\ Len(calls) = 2
  /\ calls[2].pc = "assets"
  /\ PartialCacheHit(2)
  /\ calls[2].finalText = Fragment(1)
  /\ calls[2].cachedData.tags # <<>>
  /\ calls[2].backend = 1
  /\ SynthesisStartedBy(2) = 1

(***************************************************************************)
(* Claims about the loading status and the request identifiers             *)
(***************************************************************************)
\* the edges of the loading status that a continuation may take
ContinuationEdges ==
  { <<STATUS_TRANSLATING, STATUS_LOADING_ASSETS>>,
    <<STATUS_LOADING_ASSETS, STATUS_SUCCESS>>,
    <<STATUS_TRANSLATING, STATUS_SUCCESS>>,
    <<STATUS_TRANSLATING, STATUS_ERROR>>,
    <<STATUS_LOADING_ASSETS, STATUS_ERROR>> }

\* a translate call is issued in this step: it sets translating_text and may go
\* on, before its first await, to loading_assets (text cached without audio) or
\* to success (full cache hit)
NewCallStep == Len(calls') = Len(calls) + 1

\* C27: the loading status changes only along the edges: any status to
\* translating_text on a new translate call, translating_text to loading_assets,
\* loading_assets to success, translating_text to success, translating_text or
\* loading_assets to error; after success or error only a new call changes it
C27_StatusEdges ==
  [][IF NewCallStep
     THEN loadingState'.status \in {STATUS_TRANSLATING, STATUS_LOADING_ASSETS, STATUS_SUCCESS}
     ELSE \/ loadingState'.status = loadingState.status
          \/ <<loadingState.status, loadingState'.status>> \in ContinuationEdges]_vars

\* C27 for the runs in which no two calls got the same identifier (no backend
\* call fails in these runs): the status then moves along the edges only
C27_EdgesWithDistinctIds ==
  [][DistinctRequestIds =>
       IF NewCallStep
       THEN loadingState'.status \in {STATUS_TRANSLATING, STATUS_LOADING_ASSETS, STATUS_SUCCESS}
       ELSE \/ loadingState'.status = loadingState.status
            \/ <<loadingState.status, loadingState'.status>> \in ContinuationEdges]_vars

\* C28: every translate call mints a request identifier different from the
\* identifier of every earlier call, so no two calls are both the active
\* request, also when no clock advance separates them
C28_FreshRequestIds ==
  \A a, b \in 1..Len(calls) :
    a < b => /\ calls[b].requestId # calls[a].requestId
             /\ ~(IsActive(calls[a]) /\ IsActive(calls[b]))

(***************************************************************************)
(* Claims about the in-flight speech map (SpecSettle)                      *)
(***************************************************************************)
\* texts handed to generateSpeech: one more than the speech cache holds
SettleTexts == {<<"x">>, <<"y">>, <<"z">>}

NextSettle ==
  \/ \E t \in SettleTexts : CallGenerateSpeech(t)
  \/ \E i \in 1..MaxPromises : SpeechBackendResolves(i)
  \/ \E i \in 1..MaxPromises, e \in PlainErrors : SpeechBackendRejects(i, e)
  \/ \E i \in 1..MaxPromises : SpeechTimer(i)
  \/ \E i \in 1..MaxPromises : SpeechCleanup(i)

\* the steps that the backend, the timers and the microtask queue take by themselves
SpeechCompletion ==
  \/ \E i \in 1..MaxPromises : SpeechBackendResolves(i)
  \/ \E i \in 1..MaxPromises, e \in PlainErrors : SpeechBackendRejects(i, e)
  \/ \E i \in 1..MaxPromises : SpeechTimer(i)
  \/ \E i \in 1..MaxPromises : SpeechCleanup(i)

\* every backend call answers, every timer fires, every reaction runs
SpecSettle == InitCache /\ [][NextSettle]_vars /\ WF_vars(SpeechCompletion)

\* the in-flight map holds synthesis i
HeldInFlight(i) ==
  /\ i <= Len(promises)
  /\ MapHas(inflightTTS, promises[i].key)
  /\ MapGet(inflightTTS, promises[i].key).value = i

\* synthesis i is the latest one for its text and has settled and cleaned up
LatestSettled(i) ==
  /\ i <= Len(promises)
  /\ PromiseSettled(promises[i])
  /\ promises[i].cleaned
  /\ \A j \in 1..Len(promises) : j > i => promises[j].key # promises[i].key

\* what a generateSpeech call for the text of synthesis i returns now
NewCallFor(i) == generateSpeech(promises[i].key, ttsCache, inflightTTS, promises)

IssuesFreshCall(g) == g.ret.kind = "promise" /\ g.ret.id = Len(promises) + 1
AnsweredFromCache(g, i) == g.ret.kind = "value" /\ [value |-> g.ret.value] = promises[i].outcome
ReturnsSettledOperation(g) ==
  /\ g.ret.kind = "promise"
  /\ g.ret.id <= Len(promises)
  /\ PromiseSettled(promises[g.ret.id])

\* every entry of the in-flight map is removed in the end: whenever the map
\* holds synthesis i, there is a later time at which it does not, which is
\* HeldInFlight(i) ~> ~HeldInFlight(i)
EntriesRemoved == \A i \in 1..MaxPromises : []<>~HeldInFlight(i)

\* between the tasks no entry of a settled synthesis is left, and no call
\* returns a settled operation
NoSettledEntry ==
  ~MicrotaskReady =>
    /\ \A i \in 1..Len(promises) : HeldInFlight(i) => PromisePending(promises[i])
    /\ \A t \in SettleTexts :
         ~ReturnsSettledOperation(generateSpeech(t, ttsCache, inflightTTS, promises))

\* C29: every entry put into the in-flight speech map is removed in the end,
\* once its synthesis settles, on success and on failure alike; after that a new
\* generateSpeech call for the text is answered from the speech cache (after
\* success) or issues a fresh backend call (after failure), never a settled
\* operation
C29_SettledEntryRemoved ==
  /\ EntriesRemoved
  /\ [](NoSettledEntry)
  /\ [](\A i \in 1..Len(promises) :
          LatestSettled(i) =>
            IF promises[i].state = "resolved"
            THEN AnsweredFromCache(NewCallFor(i), i)
            ELSE IssuesFreshCall(NewCallFor(i)))

\* the audio of synthesis i has been evicted from the speech cache
Evicted(i) == getCachedTTS(ttsCache, promises[i].key) = Null

\* C29 as the code has it: after a success the new call is answered from the
\* speech cache while the cache still holds the audio, and issues a fresh backend
\* call once later syntheses have evicted it
C29_RemovedAndAnsweredWhileCached ==
  /\ EntriesRemoved
  /\ [](NoSettledEntry)
  /\ [](\A i \in 1..Len(promises) :
          LatestSettled(i) =>
            IF promises[i].state = "resolved" /\ ~Evicted(i)
            THEN AnsweredFromCache(NewCallFor(i), i)
            ELSE IssuesFreshCall(NewCallFor(i)))

\* a synthesis failed for good and its entry is gone, a later call for the same
\* text started a fresh synthesis that succeeded, and a third call was answered
\* from the cache
C29_Witness ==
  /\ inflightTTS = <<>>
  /\ \E i, j \in 1..Len(promises) :
       /\ i < j
       /\ promises[i].key = promises[j].key
       /\ promises[i].state = "rejected" /\ promises[i].cleaned
       /\ promises[j].state = "resolved" /\ promises[j].cleaned
       /\ speakers.ret.kind = "value"
       /\ Trim(speakers.text) = promises[j].key

\* a synthesis succeeded and its audio has been evicted since
C29_WitnessEvicted ==
  \E i \in 1..Len(promises) :
    LatestSettled(i) /\ promises[i].state = "resolved" /\ Evicted(i)

(***************************************************************************)
(* Claims about the termination of retryOperation (SpecRetryLive)          *)
(***************************************************************************)
\* every invocation of the operation settles and every backoff timer fires
SpecRetryLive == InitRetry /\ [][NextRetry]_vars /\ WF_vars(NextRetry)

\* the run has ended with a value or with an error
EndedWithValueOrError ==
  \/ rt.pc = "returned" /\ rt.result = [value |-> rt.outcomes[Len(rt.outcomes)].value]
  \/ rt.pc = "thrown" /\ rt.result \in {[error |-> e] : e \in Errors \cup {QuotaExceededError}}

\* C30: retryOperation called with r retries invokes the operation at most r + 1
\* times (3 by default) and, as every invocation settles and every wait ends,
\* always terminates with a value or an error, whatever the mix of quota and
\* non-quota failures
C30_BoundedAndTerminates ==
  /\ [](rt.calls <= rt.retries0 + 1)
  /\ []((rt.retries0 = DEFAULT_RETRIES) => rt.calls <= 3)
  /\ [](RetryFinished => EndedWithValueOrError)
  /\ <>RetryFinished

\* the default policy used up: three invocations, the failures of both kinds,
\* and the run ended with an error
C30_Witness ==
  /\ rt.retries0 = DEFAULT_RETRIES
  /\ rt.calls = 3
  /\ rt.pc = "thrown"
  /\ \E i, j \in RetryFailures :
       /\ IsQuotaError(rt.outcomes[i].error)
       /\ ~IsQuotaError(rt.outcomes[j].error)

(***************************************************************************)
(* Claims about the backoff of retryOperation (SpecRetry)                  *)
(***************************************************************************)
\* this step is a failed attempt that is followed by a wait
AttemptFailsAndWaits == rt.pc = "calling" /\ rt'.pc = "waiting"
LastFailure(r) == r.outcomes[Len(r.outcomes)].error
LastWait(r) == r.waits[Len(r.waits)]

\* C31: when an attempt fails with a quota marker in the error text (429, quota,
\* resource exhausted) and retries remain, retryOperation waits 3 times the delay
\* it was called with before the next attempt; any other failure waits the
\* delay itself and doubles it for the attempt after
C31_QuotaWaitsThreefold ==
  [][AttemptFailsAndWaits =>
       ( /\ Len(rt'.waits) = Len(rt.waits) + 1
         /\ IF LastFailure(rt').markers # {}
            THEN LastWait(rt') = 3 * rt.delay /\ rt'.delay = 3 * rt.delay
            ELSE LastWait(rt') = rt.delay /\ rt'.delay = 2 * rt.delay
         /\ (Len(rt.outcomes) = 0 /\ LastFailure(rt').markers # {})
              => LastWait(rt') = 3 * rt.delay0 )]_vars

\* a plain failure and then a failure of each quota kind in turn: the waits are
\* d and then 3 * (2 * d)
C31_Witness ==
  /\ rt.pc = "waiting"
  /\ rt.delay0 = DEFAULT_DELAY
  /\ Len(rt.outcomes) = 2
  /\ rt.outcomes[1].error.markers = {}
  /\ rt.outcomes[2].error.markers = {"resource exhausted"}
  /\ rt.waits = <<DEFAULT_DELAY, 6 * DEFAULT_DELAY>>

\* the first attempt fails on a quota error: the wait is 3 * d
C31_WitnessFirstAttempt ==
  /\ rt.pc = "waiting"
  /\ Len(rt.outcomes) = 1
  /\ rt.outcomes[1].error.markers = {"quota"}
  /\ rt.waits = <<3 * rt.delay0>>

(***************************************************************************)
(* geminiService: the backend operations and their error handling          *)
(* (SpecService)                                                           *)
(***************************************************************************)
OP_STREAM == "translateTextStream"
OP_TRANSLATE == "translateText"
OP_ENRICH == "enrichTranslationMetadata"
OP_SPEECH == "generateSpeech"
OP_REVERSE == "getReverseTranslation"
OP_EVALUATE == "evaluatePronunciation"
OP_IMAGE == "generateImage"

ServiceOperations ==
  {OP_STREAM, OP_TRANSLATE, OP_ENRICH, OP_SPEECH, OP_REVERSE, OP_EVALUATE, OP_IMAGE}

\* the operations whose backend call is made inside retryOperation(...)
WrappedOperations == {OP_TRANSLATE, OP_ENRICH, OP_SPEECH, OP_REVERSE, OP_EVALUATE}

\* what the backend answers when it does answer: a well-formed payload, a text
\* that JSON.parse rejects, or no text and no data at all
RESP_VALID == "valid"
RESP_MALFORMED == "malformed"
RESP_EMPTY == "empty"
Responses == {RESP_VALID, RESP_MALFORMED, RESP_EMPTY}

\* the errors the operations throw themselves, and the exception of JSON.parse
EmptyResponseError == [name |-> "Empty response from AI", markers |-> {}]
InvalidFormatError == [name |-> "Invalid format from AI", markers |-> {}]
NoAudioError == [name |-> "No audio data returned", markers |-> {}]
EvaluationFailedError == [name |-> "Evaluation Failed", markers |-> {}]
JsonSyntaxError == [name |-> "SyntaxError", markers |-> {}]

\* the body of an operation after the backend has answered: the value it
\* returns or the error it throws
OperationBody(op, resp) ==
  CASE op = OP_ENRICH ->
         [ok |-> TRUE,
          value |-> IF resp = RESP_VALID THEN "parsed metadata"
                    ELSE IF resp = RESP_MALFORMED THEN "Abstract, no tags"
                    ELSE "Abstract gaming vibe, Gaming"]
    [] op = OP_TRANSLATE ->
         IF resp = RESP_EMPTY THEN [ok |-> FALSE, error |-> EmptyResponseError]
         ELSE IF resp = RESP_MALFORMED THEN [ok |-> FALSE, error |-> InvalidFormatError]
         ELSE [ok |-> TRUE, value |-> "parsed translation"]
    [] op = OP_EVALUATE ->
         IF resp = RESP_EMPTY THEN [ok |-> FALSE, error |-> EvaluationFailedError]
         ELSE IF resp = RESP_MALFORMED THEN [ok |-> FALSE, error |-> JsonSyntaxError]
         ELSE [ok |-> TRUE, value |-> "parsed score"]
    [] op = OP_SPEECH ->
         IF resp = RESP_VALID THEN [ok |-> TRUE, value |-> "audio"]
         ELSE [ok |-> FALSE, error |-> NoAudioError]
    [] op = OP_REVERSE ->
         [ok |-> TRUE,
          value |-> IF resp = RESP_EMPTY THEN "No translation found" ELSE "translation"]
    [] op = OP_STREAM ->
         [ok |-> TRUE, value |-> IF resp = RESP_EMPTY THEN "" ELSE "fragments"]
    [] op = OP_IMAGE ->
         [ok |-> TRUE, value |-> IF resp = RESP_VALID THEN "image" ELSE ""]

\* the catch block of an operation that is not wrapped, on a failed backend call
UnwrappedCatch(op, e) ==
  IF op = OP_STREAM
  THEN IF IsStreamQuotaError(e)
       THEN [ok |-> TRUE, value |-> "quota notice"]
       ELSE [ok |-> FALSE, error |-> e]
  ELSE [ok |-> TRUE, value |-> ""]

\* an operation has been called and its first backend call is running
ServiceStart(op) ==
  [pc |-> "calling", retries |-> DEFAULT_RETRIES, delay |-> DEFAULT_DELAY,
   retries0 |-> DEFAULT_RETRIES, delay0 |-> DEFAULT_DELAY, calls |-> 1, waits |-> <<>>,
   outcomes |-> <<>>, result |-> Null, op |-> op, answers |-> <<>>]

\* an outcome reaches the caller directly, without retryOperation
SettleUnwrapped(o, answer) ==
  /\ rt' = [rt EXCEPT !.pc = IF o.ok THEN "returned" ELSE "thrown",
                      !.result = IF o.ok THEN [value |-> o.value] ELSE [error |-> o.error],
                      !.outcomes = Append(@, o),
                      !.answers = Append(@, answer)]
  /\ UNCHANGED <<ia, dec, ck, rd, cacheVars, speechVars, orchVars>>

\* an outcome of the operation passed to retryOperation: its try or its catch
SettleWrapped(o, answer) ==
  /\ LET c == RetryCatch(rt.retries, rt.delay, o.error)
         out == Append(rt.outcomes, o)
         ans == Append(rt.answers, answer)
     IN  IF o.ok
         THEN rt' = [rt EXCEPT !.pc = "returned", !.result = [value |-> o.value],
                               !.outcomes = out, !.answers = ans]
         ELSE IF c.do = "throw"
         THEN rt' = [rt EXCEPT !.pc = "thrown", !.result = [error |-> c.error],
                               !.outcomes = out, !.answers = ans]
         ELSE rt' = [rt EXCEPT !.pc = "waiting", !.waits = Append(@, c.ms),
                               !.retries = c.retries, !.delay = c.delay,
                               !.outcomes = out, !.answers = ans]
  /\ UNCHANGED <<ia, dec, ck, rd, cacheVars, speechVars, orchVars>>

\* the backend call of the operation fails with e
BackendCallFails(e) ==
  /\ rt.pc = "calling"
  /\ IF rt.op \in WrappedOperations
     THEN SettleWrapped([ok |-> FALSE, error |-> e], "failure")
     ELSE SettleUnwrapped(UnwrappedCatch(rt.op, e), "failure")

\* the backend call of the operation answers with resp
BackendCallAnswers(resp) ==
  /\ rt.pc = "calling"
  /\ IF rt.op \in WrappedOperations
     THEN SettleWrapped(OperationBody(rt.op, resp), resp)
     ELSE SettleUnwrapped(OperationBody(rt.op, resp), resp)

InitService ==
  /\ rt \in {ServiceStart(op) : op \in ServiceOperations}
  /\ dec = DecodeIdle
  /\ ck = CacheKeyIdle
  /\ rd = ResultDisplayIdle
  /\ ia = InputAreaIdle
  /\ CachesEmpty
  /\ budget = ServiceBudget

NextService ==
  \/ \E e \in Errors : BackendCallFails(e)
  \/ \E resp \in Responses : BackendCallAnswers(resp)
  \/ BackoffTimerFires

SpecService == InitService /\ [][NextService]_vars

(***************************************************************************)
(* Claims about the backend operations (SpecService)                       *)
(***************************************************************************)
\* the first backend call of the operation failed (a transient failure)
FirstCallFailed == Len(rt.answers) >= 1 /\ rt.answers[1] = "failure"

\* after the first backend call the operation waits for, or makes, a second one
RetriedAfterFirst ==
  /\ Len(rt.waits) >= 1
  /\ (Len(rt.answers) = 1 => (rt.pc = "waiting" \/ (rt.pc = "calling" /\ rt.calls = 2)))
  /\ (Len(rt.answers) >= 2 => rt.calls >= 2)

\* C32: every backend operation other than image synthesis is wrapped in the
\* retry policy: a single transient failure of its backend call is retried
\* with backoff and is not surfaced to the caller after one attempt
C32_EveryOperationRetries ==
  (rt.op # OP_IMAGE /\ FirstCallFailed) => RetriedAfterFirst

\* C32 for the operations other than image synthesis and the streamed translation
C32_WrappedOperationsRetry ==
  (rt.op \notin {OP_IMAGE, OP_STREAM} /\ FirstCallFailed) => RetriedAfterFirst

\* the first answer of the backend was a text that JSON.parse rejects
FirstAnswerMalformed == Len(rt.answers) >= 1 /\ rt.answers[1] = RESP_MALFORMED

\* C33: a malformed structured response is not retried: in translateText and
\* evaluatePronunciation it causes exactly one backend call and surfaces as the
\* "invalid format" error, not the raw parse exception; in
\* enrichTranslationMetadata it yields the default value without error
C33_MalformedIsNotRetried ==
  FirstAnswerMalformed =>
    ( /\ (rt.op \in {OP_TRANSLATE, OP_EVALUATE}) =>
           ( /\ rt.calls = 1
             /\ rt.pc = "thrown"
             /\ rt.result = [error |-> InvalidFormatError] )
      /\ (rt.op = OP_ENRICH) =>
           ( /\ rt.calls = 1
             /\ rt.pc = "returned"
             /\ rt.result = [value |-> "Abstract, no tags"] ) )

\* C33 for enrichTranslationMetadata alone
C33_EnrichmentYieldsDefault ==
  (FirstAnswerMalformed /\ rt.op = OP_ENRICH) =>
    ( /\ rt.calls = 1
      /\ rt.pc = "returned"
      /\ rt.result = [value |-> "Abstract, no tags"] )

\* a malformed answer to translateText is followed by a wait and a second call
C33_TranslateTextRetriesMalformed ==
  (FirstAnswerMalformed /\ rt.op = OP_TRANSLATE /\ Len(rt.answers) = 1) =>
    ( /\ rt.pc \in {"waiting", "calling"}
      /\ rt.waits = <<DEFAULT_DELAY>> )

\* evaluatePronunciation ends with the raw parse exception after three
\* malformed answers
C33_RawParseExceptionSurfaces ==
  /\ rt.op = OP_EVALUATE
  /\ rt.answers = <<RESP_MALFORMED, RESP_MALFORMED, RESP_MALFORMED>>
  /\ rt.pc = "thrown"
  /\ rt.result = [error |-> JsonSyntaxError]

(***************************************************************************)
(* Claims about setCachedTranslation on a key that is present              *)
(* (SpecTextCache)                                                         *)
(***************************************************************************)
\* the key that the get or set of this step was called with
UsedKey == touchOrder'[Len(touchOrder')]

\* this step is a setCachedTranslation or a hit of getCachedTranslation on a
\* key that the store holds
UsesPresentKey ==
  /\ touchOrder' # <<>>
  /\ translationCache' # translationCache
  /\ MapHas(translationCache, UsedKey)

EntryBefore == MapGet(translationCache, UsedKey)
EntryAfter == MapGet(translationCache', UsedKey)

\* C34: setCachedTranslation on a key that already has an entry merges instead
\* of overwriting: the fields of the existing entry that the new value does not
\* supply are kept (audio and text end up together) and the timestamp is
\* refreshed
C34_SetMergesIntoExisting ==
  [][UsesPresentKey =>
       ( /\ MapHas(translationCache', UsedKey)
         /\ \A f \in DOMAIN EntryBefore.data : f \in DOMAIN EntryAfter.data
         /\ EntryAfter.timestamp = now )]_vars

\* C34 for the sets that find the store below its capacity
C34_MergesBelowCapacity ==
  [][(UsesPresentKey /\ Len(translationCache) < MAX_CACHE_SIZE) =>
       ( /\ MapHas(translationCache', UsedKey)
         /\ \A f \in DOMAIN EntryBefore.data : f \in DOMAIN EntryAfter.data
         /\ EntryAfter.timestamp = now )]_vars

\* C35: setCachedTranslation evicts an entry only when the insertion would make
\* the store exceed its capacity: a set for a key that is present in a full
\* store removes no entry, and never the entry it is about to merge into
C35_NoEvictionForPresentKey ==
  [][(UsesPresentKey /\ Len(translationCache) >= MAX_CACHE_SIZE) =>
       MapKeys(translationCache') = MapKeys(translationCache)]_vars

\* a set for a key that is absent from a full store removes exactly one entry
C35_EvictsOneForAbsentKey ==
  [][(Len(translationCache) >= MAX_CACHE_SIZE /\ Len(translationCache') > 0
        /\ touchOrder' # <<>> /\ ~MapHas(translationCache, UsedKey)
        /\ translationCache' # translationCache) =>
       Len(translationCache') = Len(translationCache)]_vars

(***************************************************************************)
(* Claims about the input area (SpecInput)                                 *)
(***************************************************************************)
InitInput ==
  /\ rt = RetryIdle
  /\ dec = DecodeIdle
  /\ ck = CacheKeyIdle
  /\ rd = ResultDisplayIdle
  /\ ia \in {InputAreaMounted(r) : r \in BOOLEAN}
  /\ CachesEmpty
  /\ budget = ServiceBudget

NextInput ==
  \/ \E t \in InputTexts : ChangeInputText(t)
  \/ \E s \in {LANG_AUTO, LANG_EN}, t \in {LANG_ZH, LANG_EN} : ChangeInputLanguage(s, t)
  \/ SwapInputContent
  \/ handleTextSubmit
  \/ DebounceTimerFires
  \/ startRecording
  \/ MicrophoneGranted
  \/ MicrophoneDenied
  \/ \E b \in BOOLEAN : stopRecording(b)

SpecInput == InitInput /\ [][NextInput]_vars

\* at most one debounce timer is pending, and it is the one that the latest
\* change of the text or the languages started, with the delay for that text
OneTimerOfLatestInput ==
  /\ Cardinality(ia.timers) <= 1
  /\ \A t \in ia.timers :
       /\ t.id = ia.debounceTimerRef
       /\ t.text = ia.inputText /\ t.src = ia.sourceLang /\ t.tgt = ia.targetLang
       /\ t.delay = IF IsPunctuation(ia.inputText) THEN 800 ELSE 1500

SubmitStep == ia'.lastEvent = "submit" /\ ia'.events = ia.events + 1

\* the step adds exactly one onTranslate call, made by `by` with the current input
AddsOneCall(by) ==
  /\ Len(ia'.translated) = Len(ia.translated) + 1
  /\ ia'.translated[Len(ia'.translated)] =
       [by |-> by, input |-> ia.inputText, src |-> ia.sourceLang, tgt |-> ia.targetLang]

\* C36: after any sequence of keystrokes, language changes and explicit submits
\* at most one debounce timer is pending, the one started by the latest input
\* change (800 ms after sentence-ending punctuation, 1500 ms otherwise); an
\* explicit submit calls translate at once and cancels the pending timer, so an
\* edit followed by an explicit submit causes exactly one translate call
C36_OneTimerAndSubmitCallsOnce ==
  /\ [](ia.pc = "mounted" => OneTimerOfLatestInput)
  /\ [][(SubmitStep /\ ia.lastEvent = "edit") =>
         (AddsOneCall("submit") /\ ia'.timers = {})]_vars

\* C36 as the code has it: the explicit submit always cancels the pending timer
\* and calls translate once when the text is not blank; a submit of an empty or
\* whitespace-only text calls nothing
C36_SubmitCallsOnceUnlessBlank ==
  /\ [](ia.pc = "mounted" => OneTimerOfLatestInput)
  /\ [][SubmitStep =>
         ( /\ ia'.timers = {}
           /\ IF Trim(ia.inputText) # <<>>
              THEN AddsOneCall("submit")
              ELSE ia'.translated = ia.translated )]_vars

\* an edit started a timer, the explicit submit cancelled it and made the only
\* translate call
C36_Witness ==
  /\ ia.pc = "mounted"
  /\ ia.lastEvent = "submit"
  /\ ia.events = 2
  /\ ia.debounceTimerRef = 1
  /\ ia.timers = {}
  /\ Len(ia.translated) = 1
  /\ ia.translated[1].by = "submit"
  /\ ia.translated[1].input = <<"a", ".">>

\* a blank text has been submitted: no translate call
C36_WitnessBlank ==
  /\ ia.pc = "mounted"
  /\ ia.lastEvent = "submit"
  /\ ia.inputText = <<" ">>
  /\ ia.translated = <<>>

\* the user has started a recording and the recorder has not stopped yet
CaptureUnderWay == ia.pc = "mounted" /\ ia.mic \in {"acquiring", "recording"}

\* this step is a debounced automatic submission
DebouncedSubmission ==
  /\ Len(ia'.translated) = Len(ia.translated) + 1
  /\ ia'.translated[Len(ia'.translated)].by = "debounce"

\* C37: starting audio capture cancels the pending debounce timer, and from the
\* start-recording action until the recorder stops no debounced automatic
\* submission fires, also not for text typed while microphone access is still
\* being acquired
C37_NoAutoSubmitWhileCapturing ==
  /\ [][(ia'.lastEvent = "startRecording" /\ ia'.events = ia.events + 1)
          => ia'.timers = {}]_vars
  /\ [][CaptureUnderWay => ~DebouncedSubmission]_vars

\* the first half of C37: starting audio capture cancels the pending timer
C37_StartCancelsPendingTimer ==
  [][(ia'.lastEvent = "startRecording" /\ ia'.events = ia.events + 1)
       => ia'.timers = {}]_vars

\* the recorder is running and the timer of a text typed while the microphone
\* was being acquired is still pending
C37_TimerPendingWhileRecording ==
  /\ ia.pc = "mounted"
  /\ ia.mic = "recording"
  /\ ia.isRecording
  /\ ia.timers # {}

(***************************************************************************)
(* Claims about what a translate call commits (SpecCommit)                 *)
(***************************************************************************)
\* two calls that may overlap, within one millisecond or one millisecond apart
CommitBudget ==
  [calls |-> 2, overlap |-> TRUE, clock |-> 1, failures |-> 0, events |-> 0]
InitCommit ==
  /\ rt = RetryIdle
  /\ dec = DecodeIdle
  /\ ck = CacheKeyIdle
  /\ rd = ResultDisplayIdle
  /\ ia = InputAreaIdle
  /\ CachesEmpty
  /\ budget \in {CommitBudget, FaultsBudget}
SpecCommit == InitCommit /\ [][NextAssets]_vars

\* the commits of all calls so far
TotalCommits == SumOver([c \in 1..Len(calls) |-> calls[c].commits], Len(calls))

\* the step prepends one record to the history and cuts it at its limit
PrependsOneRecord ==
  /\ history' # <<>>
  /\ Len(history') = Min(Len(history) + 1, HISTORY_LIMIT)
  /\ SubSeq(history', 2, Len(history')) = SubSeq(history, 1, Len(history') - 1)

\* C38: each translate call commits at most one record to history, on every
\* path (full cache hit, streaming completion, fallback success, failure) and
\* for every interleaving with other translate calls
C38_AtMostOneCommitPerCall ==
  /\ [](\A c \in 1..Len(calls) : calls[c].commits <= 1)
  /\ [][/\ TotalCommits' \in {TotalCommits, TotalCommits + 1}
        /\ (TotalCommits' = TotalCommits) => history' = history
        /\ (TotalCommits' = TotalCommits + 1) => PrependsOneRecord]_vars

\* two overlapping calls with one identifier have both ended, each with one
\* commit
C38_Witness ==
  /\ Len(calls) = 2
  /\ calls[1].requestId = calls[2].requestId
  /\ calls[1].commits = 1 /\ calls[2].commits = 1
  /\ calls[1].pc = "done" /\ calls[2].pc = "done"
  /\ calls[1].backend > 0 /\ calls[2].backend > 0
  /\ Len(history) = 2

\* a call whose stream failed has committed the record of the fallback
C38_WitnessFallback ==
  /\ Len(calls) = 1
  /\ calls[1].pc = "done"
  /\ calls[1].commits = 1
  /\ FailedAttempts > 0
  /\ loadingState.status = STATUS_SUCCESS

\* a call has ended in the error state and committed nothing
C38_WitnessFailure ==
  /\ Len(calls) = 1
  /\ calls[1].pc = "done"
  /\ calls[1].commits = 0
  /\ loadingState.status = STATUS_ERROR

\* a later call has committed the record of a full cache hit
C38_WitnessCacheHit ==
  /\ Len(calls) = 2
  /\ calls[2].pc = "done"
  /\ calls[2].backend = 0
  /\ calls[2].commits = 1

(***************************************************************************)
(* Claims about the audio payload of the visible record (SpecEdits)        *)
(***************************************************************************)
\* the audio payload of the visible record, if it carries one
VisibleAudio == IF currentResult = Null THEN Null ELSE CachedAudio(currentResult)

\* the visible record carries audio of another text than its translatedText
ForeignAudio ==
  /\ AudioTruthy(VisibleAudio)
  /\ VisibleAudio # AudioFor(Trim(currentResult.translatedText))

\* C39: whenever the visible record carries an audio payload, that payload was
\* synthesized or cached for the record's current translatedText; an audio task
\* that finishes after a swap does not attach its audio to the swapped record
C39_AudioBelongsToVisibleText == ~ForeignAudio

\* the same, for as long as the user has not swapped
C39_AudioBelongsUntilSwap == (userEvents = 0) => ~ForeignAudio

\* the audio of a finished call is on its visible record, no swap having happened
C39_Witness ==
  /\ userEvents = 0
  /\ AudioTruthy(VisibleAudio)
  /\ VisibleAudio = AudioFor(Trim(currentResult.translatedText))

(***************************************************************************)
(* Claims about the quota notice of the streaming operation (SpecAssets)   *)
(***************************************************************************)
\* the text has the quota notice of translateTextStream among its fragments
ContainsNotice(text) == \E i \in 1..Len(text) : text[i] = QUOTA_NOTICE[1]

NoticeInHistory == \E i \in 1..Len(history) : ContainsNotice(history[i].translatedText)

NoticeInTextCache ==
  \E i \in 1..Len(translationCache) :
    /\ "slang" \in DOMAIN translationCache[i].data
    /\ ContainsNotice(translationCache[i].data.slang)

\* C40: the quota notice the streaming operation yields on a quota condition is
\* never stored as (part of) the translation text in the text-translation cache
\* and never committed to history as (part of) a record's translatedText
C40_NoticeNeverStoredNorCommitted == ~NoticeInTextCache /\ ~NoticeInHistory

\* a call whose stream met no quota condition has been committed and cached
\* without the notice
C40_CommittedWithoutNotice ==
  /\ Len(history) = 1
  /\ Len(translationCache) = 1
  /\ ~NoticeInHistory
  /\ ~NoticeInTextCache

====
